---- MODULE Spec2Model ----
(***************************************************************************)
(* The session of the terminal multiplexer as a state machine: the app     *)
(* dispatcher of start() (src/src/common/mod.rs), its screen, wasm and     *)
(* router threads, the pty and ipc_server threads of start_server()        *)
(* (src/src/server/mod.rs), and the drive-by process of main()             *)
(* (src/src/main.rs).                                                      *)
(*                                                                         *)
(* A bus message is a record                                               *)
(*   instr : the instruction, a tuple <<variant, payload...>>              *)
(*   ctx   : the ErrorContext it carries, a sequence of bus tags           *)
(*   from  : the sending thread                                            *)
(*   hctx  : the context of the message the sender was handling when it    *)
(*           sent this one, NoCtx if it was handling none                  *)
(* of which from and hctx are history: no code reads them.                 *)
(***************************************************************************)
EXTENDS Integers, Sequences, FiniteSets, TLC

VARIABLES
    pc,         \* position of every thread of the session
    appQ,       \* sync_channel(500) of AppInstruction        (common/mod.rs:205)
    screenQ,    \* channel() of ScreenInstruction             (common/mod.rs:192)
    pluginQ,    \* channel() of PluginInstruction             (common/mod.rs:199)
    ptyQ,       \* channel() of PtyInstruction                (server/mod.rs:27)
    serverBuf,  \* SharedRingBuffer at MOSAIC_IPC_PIPE        (server/mod.rs:35)
    clientBuf,  \* SharedRingBuffer::create_temp              (common/mod.rs:212)
    slot,       \* err_ctx slot of every SenderWithContext / IpcSenderWithContext
    pend,       \* per thread: the message of a send that has not returned yet
    errCtx,     \* per thread: err_ctx of its loop, the context the body runs under
    tabs,       \* Screen: number of tabs; an active tab exists iff tabs > 0
    nextPid,    \* PtyBus: pid the next spawn_terminal returns
    stdout,     \* what has been written to the terminal, as named escape codes
    rawMode,    \* terminal raw mode
    exitCode,   \* "running", or the exit code of the session process
    optsLayout, \* server/mod.rs:42 opts.layout, "None" without --layout
    testRun,    \* server/mod.rs:38-41 the build is a test build (cfg(test))
    maybeLayout,\* server/mod.rs:42 maybe_layout, "None" or the layout
    nEnv,       \* messages sent so far from outside the threads of the session
    mainPc,     \* main(): position of the invocation under study
    mainOpts,   \* main(): its CliArgs
    mainSent,   \* main(): the instructions it has put on the server buffer
    bufExists,  \* the file MOSAIC_IPC_PIPE exists
    panes,      \* Screen: the panes opened in the active tab, <<how, pid>> each
    tab,        \* Screen: the layout tree and the focused pane of the active tab
    pluginId,   \* wasm thread: plugin_id                      (common/mod.rs:392)
    pluginMap,  \* wasm thread: the keys of plugin_map         (common/mod.rs:393)
    pluginLog,  \* what the host has done to the loaded plugins, in order
    pidReplies, \* the ids sent on the pid_tx of the Loads, in order
    updPc,      \* update_state: where each of its callers is
    stateRx,    \* update_state: what waits on the state_rx of each caller
    uiPc,       \* input handler: "idle", or the completion it waits for
    openingPane,\* CommandIsExecuting: a new pane is being opened
    closingPane,\* CommandIsExecuting: a pane is being closed
    appState,   \* app dispatcher: app_state                   (common/mod.rs:186)
    stateReplies\* the states sent on the state_tx of the GetStates, in order

vars == <<pc, appQ, screenQ, pluginQ, ptyQ, serverBuf, clientBuf, slot, pend, errCtx,
          tabs, nextPid, stdout, rawMode, exitCode, optsLayout, testRun, maybeLayout,
          nEnv, mainPc, mainOpts, mainSent, bufExists, panes,
          pluginId, pluginMap, pluginLog, pidReplies, appState, stateReplies,
          uiPc, openingPane, closingPane, tab, updPc, stateRx>>

----------------------------------------------------------------------------
(* Bounds of the model *)

\* sync_channel(500) at common/mod.rs:206, scaled down
AppChannelCapacity == 1
\* messages the 8192-byte ring buffer holds (server/mod.rs:35), scaled down
RingCapacity == 1
\* messages from outside the threads of the session, during one session: drive-by
\* invocations, AppInstructions of input_loop, ClientInstructions sent back
MaxEnv == 2
\* instructions sent to the plugin host, and GetState / SetState sent to the app
\* dispatcher, in the sessions that study them
MaxHostEnv == 3
\* messages from outside in the sessions that study the load on the route
\* between the app dispatcher and the server
MaxCycleEnv == 3

----------------------------------------------------------------------------
(* Threads, senders, contexts *)

Threads == {"app", "screen", "wasm", "pty", "ipc_server", "router"}

\* ContextType the loop of a thread adds to the context of what it receives;
\* the router adds none (common/mod.rs:531-534)
BusTag(t) ==
    CASE t = "app" -> "App"
      [] t = "screen" -> "Screen"
      [] t = "wasm" -> "Plugin"
      [] t = "pty" -> "Pty"
      [] t = "ipc_server" -> "IPCServer"
      [] OTHER -> "None"

\* ErrorContext::new()
EmptyCtx == <<>>

\* hctx of a message that was not sent from the body of a loop
NoCtx == <<"-">>

\* ErrorContext::add_call
AddCall(ctx, tag) == Append(ctx, tag)

Msg(i, c, f, h) == [instr |-> i, ctx |-> c, from |-> f, hctx |-> h]

NoMsg == Msg(<<"None">>, EmptyCtx, "none", NoCtx)

Kind(m) == m.instr[1]

\* the sender handles of the session, by holder and destination
Senders == {"app_screen", "app_plugin", "app_server", "screen_app", "wasm_screen",
            "wasm_app", "pty_server", "ipc_pty", "ipc_app", "router_app", "hook_app",
            "input_app", "screen_plugin"}

Running == exitCode = "running"

Alive(t) == pc[t] \notin {"done", "dead"}

\* a loop whose Exit arm does not leave it
AfterBreakStays == "loop"

\* where the break of the Exit / Quit arm leaves the thread of a loop
\* (common/mod.rs:376-378, 503, 536; server/mod.rs:111-113)
AfterBreak == "done"

\* what each loop does to the context it receives before its body runs
\* (common/mod.rs:250, 399, 553; server/mod.rs:63, 126; the router adds nothing)
HandlerCtx(t, ctx) == IF t = "router" THEN ctx ELSE AddCall(ctx, BusTag(t))

\* the senders whose slot a loop overwrites with that context
\* (common/mod.rs:251, 400-401, 534, 554-555; server/mod.rs:127-128)
UpdatedSenders(t) ==
    CASE t = "app" -> {"app_screen", "app_server"}
      [] t = "screen" -> {"screen_app"}
      [] t = "wasm" -> {"wasm_screen", "wasm_app"}
      [] t = "ipc_server" -> {"ipc_pty", "ipc_app"}
      [] t = "router" -> {"router_app"}
      [] OTHER -> {}

\* the slot of sender s once thread t has received m
NewSlot(t, m, s) == IF s \in UpdatedSenders(t) THEN HandlerCtx(t, m.ctx) ELSE slot[s]

\* the head of every loop: recv, add_call, update of the slots
Receive(t, m) ==
    /\ slot' = [s \in Senders |-> NewSlot(t, m, s)]
    /\ errCtx' = [errCtx EXCEPT ![t] = HandlerCtx(t, m.ctx)]

\* the message thread t sends with sender s while it handles m
Out(t, m, s, i) == Msg(i, NewSlot(t, m, s), t, HandlerCtx(t, m.ctx))

\* a send that puts the message ahead of what is queued
SendFront(q, m) == <<m>> \o q

\* SenderWithContext::send / IpcSenderWithContext::send: enqueue at the tail
Send(q, m) == Append(q, m)

\* a send on the bounded app channel or on a ring buffer returns only when there
\* is room
AppFull == Len(appQ) >= AppChannelCapacity
RingFull(buf) == Len(buf) >= RingCapacity

\* a try_send that enqueues whether or not there is room
TrySendOverflow(q, m) == Append(q, m)

\* SenderWithContext::try_send: Full, and the event dropped, when no room
TrySend(q, m) == IF Len(q) >= AppChannelCapacity THEN q ELSE Append(q, m)

\* the panic hook of common/mod.rs:219-225 run by thread t: handle_panic posts
\* AppInstruction::Error with the hook's own clone of the app sender
HandlePanic(q, t) ==
    TrySend(q, Msg(<<"Error">>, slot["hook_app"], t, NoCtx))

----------------------------------------------------------------------------
(* The state when start() has spawned its threads (common/mod.rs:179-546) *)

InitSession ==
    /\ pc = [t \in Threads |-> "loop"]
    /\ appQ = <<>>
    /\ screenQ = <<>>
    /\ pluginQ = <<>>
    \* server/mod.rs:57: NewTab is queued before the pty thread runs
    /\ ptyQ = <<Msg(<<"NewTab">>, EmptyCtx, "start_server", NoCtx)>>
    \* common/mod.rs:213-216: NewClient is the first message of the client
    /\ serverBuf = <<Msg(<<"NewClient">>, EmptyCtx, "app", NoCtx)>>
    /\ clientBuf = <<>>
    /\ slot = [s \in Senders |-> EmptyCtx]
    /\ pend = [t \in Threads |-> NoMsg]
    /\ errCtx = [t \in Threads |-> NoCtx]
    /\ tabs = 0
    /\ nextPid = 1
    /\ stdout = <<"take_snapshot">>
    /\ rawMode = TRUE
    /\ exitCode = "running"
    /\ nEnv = 0
    /\ panes = <<>>
    \* common/mod.rs:392-393
    /\ pluginId = 0
    /\ pluginMap = {}
    /\ pluginLog = <<>>
    /\ pidReplies = <<>>
    \* common/mod.rs:186: AppState::default()
    /\ appState = "default"
    /\ stateReplies = <<>>
    /\ updPc = [c \in {"f", "g"} |-> "start"]
    /\ stateRx = [c \in {"f", "g"} |-> <<>>]
    \* common/mod.rs:188: CommandIsExecuting::new()
    /\ uiPc = "idle"
    /\ openingPane = FALSE
    /\ closingPane = FALSE
    /\ tab = [tree |-> <<"empty">>, focus |-> 0]

mainVars == <<mainPc, mainOpts, mainSent>>
termVars == <<stdout, rawMode, exitCode>>
layoutVars == <<optsLayout, testRun, maybeLayout>>
envVars == <<nEnv, layoutVars, bufExists>>
hostVars == <<pluginId, pluginMap, pluginLog, pidReplies>>
updVars == <<updPc, stateRx>>
stateVars == <<appState, stateReplies, updVars>>
cmdVars == <<uiPc, openingPane, closingPane>>

----------------------------------------------------------------------------
(* The app dispatcher: the loop of start(), common/mod.rs:548-587 *)

\* the main thread panics: the hook runs, then the process ends with code 101
MainPanics(q) ==
    /\ appQ' = HandlePanic(q, "app")
    /\ pc' = [pc EXCEPT !["app"] = "panicked"]
    /\ exitCode' = "101"
    /\ UNCHANGED <<stdout, rawMode>>

\* common/mod.rs:561-563 and 589-591: Exit to the server (m is on its way), the
\* screen, the plugin host; the results of the sends are dropped
SendExits(m, sc, pl, next) ==
    /\ serverBuf' = Send(serverBuf, m)
    /\ screenQ' = IF Alive("screen")
                  THEN Send(screenQ, [m EXCEPT !.ctx = sc])
                  ELSE screenQ
    /\ pluginQ' = IF Alive("wasm")
                  THEN Send(pluginQ, [m EXCEPT !.ctx = pl])
                  ELSE pluginQ
    /\ pc' = [pc EXCEPT !["app"] = next]
    /\ pend' = [pend EXCEPT !["app"] = NoMsg]

\* an app dispatcher that keeps its state whatever it is sent
StateKept(i, st) == st

\* app_state once the app dispatcher has handled instruction i:
\* common/mod.rs:558, `AppInstruction::SetState(state) => app_state = state`
StateAfter(i, st) == IF i[1] = "SetState" THEN i[2] ELSE st

\* an Error arm that writes the backtrace without joining any thread
AfterErrorExitsNoJoin == "error_exit"

\* common/mod.rs:561-564: what the Error arm does after its three Exits: it
\* joins the screen thread
AfterErrorExits == "ejoin_screen"

AppRecv ==
    /\ Running /\ pc["app"] = "loop" /\ appQ # <<>>
    /\ LET m == Head(appQ)
           k == Kind(m)
       IN
       /\ Receive("app", m)
       \* common/mod.rs:557-558: only GetState sends the state, only SetState
       \* assigns it
       /\ stateReplies' = IF k = "GetState" THEN Append(stateReplies, appState)
                          ELSE stateReplies
       /\ stateRx' = IF k = "GetState" /\ Len(m.instr) = 2
                     THEN [stateRx EXCEPT ![m.instr[2]] = Append(@, appState)]
                     ELSE stateRx
       /\ appState' = StateAfter(m.instr, appState)
       /\ CASE k \in {"GetState", "SetState"} ->
                 /\ appQ' = Tail(appQ)
                 /\ UNCHANGED <<screenQ, pluginQ, serverBuf, pc, pend, termVars>>
            [] k \in {"Exit", "Error"} ->
                 /\ appQ' = Tail(appQ)
                 /\ IF RingFull(serverBuf)
                    THEN /\ pc' = [pc EXCEPT !["app"] = IF k = "Exit" THEN "exit_send"
                                                       ELSE "error_send"]
                         /\ pend' = [pend EXCEPT !["app"] =
                                       Out("app", m, "app_server", <<"Exit">>)]
                         /\ UNCHANGED <<screenQ, pluginQ, serverBuf>>
                    ELSE SendExits(Out("app", m, "app_server", <<"Exit">>),
                                   NewSlot("app", m, "app_screen"),
                                   NewSlot("app", m, "app_plugin"),
                                   IF k = "Exit" THEN "join_screen" ELSE AfterErrorExits)
                 /\ UNCHANGED termVars
            [] k = "ToScreen" ->
                 IF Alive("screen")
                 THEN /\ appQ' = Tail(appQ)
                      /\ screenQ' = Send(screenQ, Out("app", m, "app_screen", m.instr[2]))
                      /\ UNCHANGED <<pluginQ, serverBuf, pc, pend, termVars>>
                 ELSE \* send(..).unwrap() on a disconnected channel
                      /\ MainPanics(Tail(appQ))
                      /\ UNCHANGED <<screenQ, pluginQ, serverBuf, pend>>
            [] k = "ToPlugin" ->
                 IF Alive("wasm")
                 THEN /\ appQ' = Tail(appQ)
                      /\ pluginQ' = Send(pluginQ, Out("app", m, "app_plugin", m.instr[2]))
                      /\ UNCHANGED <<screenQ, serverBuf, pc, pend, termVars>>
                 ELSE /\ MainPanics(Tail(appQ))
                      /\ UNCHANGED <<screenQ, pluginQ, serverBuf, pend>>
            [] k = "ToPty" ->
                 /\ appQ' = Tail(appQ)
                 /\ IF RingFull(serverBuf)
                    THEN /\ pc' = [pc EXCEPT !["app"] = "send_topty"]
                         /\ pend' = [pend EXCEPT !["app"] =
                                       Out("app", m, "app_server", <<"ToPty", m.instr[2]>>)]
                         /\ UNCHANGED serverBuf
                    ELSE /\ serverBuf' = Send(serverBuf, Out("app", m, "app_server",
                                                             <<"ToPty", m.instr[2]>>))
                         /\ UNCHANGED <<pc, pend>>
                 /\ UNCHANGED <<screenQ, pluginQ, termVars>>
    /\ UNCHANGED <<ptyQ, clientBuf, tabs, nextPid, envVars, mainVars>>
    /\ UNCHANGED <<panes, tab, hostVars, cmdVars, updPc>>

\* common/mod.rs:584: the send on the server's ring buffer returns once the ring
\* has room
AppSendToPty ==
    /\ Running /\ pc["app"] = "send_topty" /\ ~RingFull(serverBuf)
    /\ serverBuf' = Send(serverBuf, pend["app"])
    /\ pc' = [pc EXCEPT !["app"] = "loop"]
    /\ pend' = [pend EXCEPT !["app"] = NoMsg]
    /\ UNCHANGED <<appQ, screenQ, pluginQ, ptyQ, clientBuf, slot, errCtx,
                   tabs, nextPid, termVars, envVars, mainVars>>
    /\ UNCHANGED <<panes, tab, hostVars, stateVars, cmdVars>>

\* common/mod.rs:561 and 589: the same for the Exit to the server; the other two
\* Exits follow it
AppSendExit ==
    /\ Running /\ pc["app"] \in {"exit_send", "error_send"} /\ ~RingFull(serverBuf)
    /\ SendExits(pend["app"], slot["app_screen"], slot["app_plugin"],
                 IF pc["app"] = "exit_send" THEN "join_screen" ELSE AfterErrorExits)
    /\ UNCHANGED <<appQ, ptyQ, clientBuf, slot, errCtx, tabs, nextPid,
                   termVars, envVars, mainVars>>
    /\ UNCHANGED <<panes, tab, hostVars, stateVars, cmdVars>>

\* common/mod.rs:598-612
GoodbyeMessage == <<"goto_last_line", "restore_snapshot", "reset_style", "show_cursor",
                    "bye">>

\* common/mod.rs:569-570
ErrorMessage == <<"goto_last_line", "backtrace">>

\* common/mod.rs:592-612: the joins of the normal shutdown, each unwrapped, then the
\* goodbye; a join returns when the thread has ended, Err if it panicked
AppJoin ==
    /\ Running
    /\ pc["app"] \in {"join_screen", "join_wasm", "join_ipc", "join_router"}
    /\ LET t == CASE pc["app"] = "join_screen" -> "screen"
                  [] pc["app"] = "join_wasm" -> "wasm"
                  [] pc["app"] = "join_ipc" -> "ipc_server"
                  [] pc["app"] = "join_router" -> "router"
       IN
       /\ ~Alive(t)
       /\ IF pc[t] = "dead"
          THEN /\ MainPanics(appQ)
          ELSE IF t = "router"
          THEN /\ pc' = [pc EXCEPT !["app"] = "returned"]
               /\ rawMode' = FALSE
               /\ stdout' = stdout \o GoodbyeMessage
               /\ exitCode' = "0"
               /\ UNCHANGED appQ
          ELSE /\ pc' = [pc EXCEPT !["app"] =
                           CASE t = "screen" -> "join_wasm"
                             [] t = "wasm" -> "join_ipc"
                             [] t = "ipc_server" -> "join_router"]
               /\ UNCHANGED <<appQ, termVars>>
    /\ UNCHANGED <<screenQ, pluginQ, ptyQ, serverBuf, clientBuf, slot, pend, errCtx,
                   tabs, nextPid, envVars, mainVars>>
    /\ UNCHANGED <<panes, tab, hostVars, stateVars, cmdVars>>

\* common/mod.rs:564-566: the joins of the Error arm, their results dropped
AppErrorJoin ==
    /\ Running
    /\ pc["app"] \in {"ejoin_screen", "ejoin_wasm", "ejoin_ipc"}
    /\ LET t == CASE pc["app"] = "ejoin_screen" -> "screen"
                  [] pc["app"] = "ejoin_wasm" -> "wasm"
                  [] pc["app"] = "ejoin_ipc" -> "ipc_server"
       IN
       /\ ~Alive(t)
       /\ pc' = [pc EXCEPT !["app"] =
                   CASE t = "screen" -> "ejoin_wasm"
                     [] t = "wasm" -> "ejoin_ipc"
                     [] t = "ipc_server" -> "error_exit"]
    /\ UNCHANGED <<appQ, screenQ, pluginQ, ptyQ, serverBuf, clientBuf, slot, pend,
                   errCtx, tabs, nextPid, termVars, envVars, mainVars>>
    /\ UNCHANGED <<panes, tab, hostVars, stateVars, cmdVars>>

\* common/mod.rs:568-575: unset raw mode, write the error, exit(1)
AppErrorExit ==
    /\ Running /\ pc["app"] = "error_exit"
    /\ rawMode' = FALSE
    /\ stdout' = stdout \o ErrorMessage
    /\ exitCode' = "1"
    /\ pc' = [pc EXCEPT !["app"] = "exited"]
    /\ UNCHANGED <<appQ, screenQ, pluginQ, ptyQ, serverBuf, clientBuf, slot, pend,
                   errCtx, tabs, nextPid, envVars, mainVars>>
    /\ UNCHANGED <<panes, tab, hostVars, stateVars, cmdVars>>

----------------------------------------------------------------------------
(* The screen thread, common/mod.rs:245-380 *)

\* the instructions whose arm starts with get_active_tab_mut().unwrap()
TabDirected == {"Pty", "NewPane", "HorizontalSplit", "VerticalSplit", "WriteCharacter",
                "ResizeLeft", "ResizeRight", "ResizeDown", "ResizeUp", "MoveFocus",
                "MoveFocusLeft", "MoveFocusDown", "MoveFocusRight", "MoveFocusUp",
                "ScrollUp", "ScrollDown", "ClearScroll", "CloseFocusedPane",
                "SetSelectable", "SetMaxHeight", "SetInvisibleBorders", "ClosePane",
                "ToggleActiveTerminalFullscreen"}

\* Screen::get_active_tab_mut is None while the screen has no tab
NoActiveTab == tabs = 0

\* the instructions that open a pane for a terminal in the active tab
OpensPane == {"NewPane", "HorizontalSplit", "VerticalSplit"}

\* the instructions whose arm ends with done_opening_new_pane()
\* (common/mod.rs:264, 268, 272, 364, 374)
AcksOpening == OpensPane \cup {"NewTab", "ApplyLayout"}

\* the instructions whose arm ends with done_closing_pane(), before any render
\* (common/mod.rs:327, 353, 370)
AcksClosing == {"CloseFocusedPane", "ClosePane", "CloseTab"}

\* the instructions whose arm calls screen.render()
\* (common/mod.rs:260, 328, 336, 349, 354)
Renders == {"Render", "CloseFocusedPane", "SetSelectable", "SetInvisibleBorders",
            "ClosePane"}

\* Screen::render writes the panes of the active tab to stdout
Rendered(out, k) == IF k \in Renders THEN Append(out, "render") ELSE out

\* The layout of a tab is a binary tree: a leaf <<"pane", id>>, or a node
\* <<direction, ratio in percent, first child, second child>> with direction "v"
\* (side by side) or "h" (one above the other); <<"empty">> has no pane.
EmptyTab == [tree |-> <<"empty">>, focus |-> 0]

Leaf(id) == <<"pane", id>>

\* the pane ids at the leaves of a tree
RECURSIVE LeavesOf(_)
LeavesOf(t) ==
    CASE t[1] = "empty" -> {}
      [] t[1] = "pane" -> {t[2]}
      [] OTHER -> LeavesOf(t[3]) \cup LeavesOf(t[4])

\* the first leaf of a tree that has one
RECURSIVE FirstLeaf(_)
FirstLeaf(t) == IF t[1] = "pane" THEN t[2] ELSE FirstLeaf(t[3])

\* the split of leaf id: the leaf becomes a node whose children are the old pane
\* and the new pane, with ratio 0.5
RECURSIVE SplitLeaf(_, _, _, _)
SplitLeaf(t, id, dir, new) ==
    CASE t[1] = "empty" -> Leaf(new)
      [] t[1] = "pane" -> IF t[2] = id THEN <<dir, 50, t, Leaf(new)>> ELSE t
      [] OTHER -> <<t[1], t[2], SplitLeaf(t[3], id, dir, new),
                    SplitLeaf(t[4], id, dir, new)>>

\* the close of leaf id: the node above it is replaced by the sibling, which
\* inherits the freed space
RECURSIVE CloseLeaf(_, _)
CloseLeaf(t, id) ==
    CASE t[1] = "empty" -> t
      [] t[1] = "pane" -> IF t[2] = id THEN <<"empty">> ELSE t
      [] t[3] = Leaf(id) -> t[4]
      [] t[4] = Leaf(id) -> t[3]
      [] OTHER -> <<t[1], t[2], CloseLeaf(t[3], id), CloseLeaf(t[4], id)>>

\* the subtree that inherits the space of leaf id, <<"empty">> if there is none
RECURSIVE SiblingOf(_, _)
SiblingOf(t, id) ==
    CASE t[1] \in {"empty", "pane"} -> <<"empty">>
      [] t[3] = Leaf(id) -> t[4]
      [] t[4] = Leaf(id) -> t[3]
      [] id \in LeavesOf(t[3]) -> SiblingOf(t[3], id)
      [] OTHER -> SiblingOf(t[4], id)

\* Tab::horizontal_split / vertical_split / new_pane: the focused pane is split
\* and the new pane gets the focus; new_pane splits side by side
SplitTab(tb, dir, new) ==
    [tree |-> SplitLeaf(tb.tree, tb.focus, dir, new), focus |-> new]

\* Tab::close_pane: the focus, if it was on the closed pane, goes to the pane
\* that inherits its space
CloseInTab(tb, id) ==
    IF id \notin LeavesOf(tb.tree)
    THEN tb
    ELSE [tree |-> CloseLeaf(tb.tree, id),
          focus |-> IF tb.focus # id
                    THEN tb.focus
                    ELSE IF SiblingOf(tb.tree, id) = <<"empty">>
                         THEN 0
                         ELSE FirstLeaf(SiblingOf(tb.tree, id))]

\* Tab::apply_layout: the panes of the layout, one above the other
RECURSIVE LayoutTree(_)
LayoutTree(pids) ==
    IF Len(pids) = 1
    THEN Leaf(pids[1])
    ELSE <<"h", 50, Leaf(pids[1]), LayoutTree(Tail(pids))>>

\* the rectangles of the panes of a tree drawn at column x, row y on cols
\* columns and rows rows: [id, x, y, cols, rows] each
RECURSIVE Rects(_, _, _, _, _)
Rects(t, x, y, cols, rows) ==
    CASE t[1] = "empty" -> {}
      [] t[1] = "pane" -> {[id |-> t[2], x |-> x, y |-> y, cols |-> cols, rows |-> rows]}
      [] t[1] = "v" ->
           LET first == (cols * t[2]) \div 100
           IN Rects(t[3], x, y, first, rows)
                 \cup Rects(t[4], x + first, y, cols - first, rows)
      [] OTHER ->
           LET first == (rows * t[2]) \div 100
           IN Rects(t[3], x, y, cols, first)
                 \cup Rects(t[4], x, y + first, cols, rows - first)

\* a screen that splits every pane side by side
SplitDirectionSideways(k) == "v"

\* the direction of the split an instruction asks for: horizontal_split,
\* vertical_split (common/mod.rs:266-273); new_pane is taken to split side by side
SplitDirection(k) == IF k = "HorizontalSplit" THEN "h" ELSE "v"

\* the pane id an instruction closes: the focused pane, or the pane it names
ClosedId(i) == IF i[1] = "CloseFocusedPane" THEN tab.focus ELSE i[2]

\* the index in panes of the pane an instruction closes, 0 if there is none
ClosedPane(i) ==
    IF \E n \in 1..Len(panes) : panes[n][2] = ClosedId(i)
    THEN CHOOSE n \in 1..Len(panes) : panes[n][2] = ClosedId(i)
    ELSE 0

\* Tab::close_pane and Screen::close_tab ask the pty bus, through the app bus, to
\* close the children of the panes they close
ClosePty(i) ==
    IF i[1] = "CloseTab"
    THEN <<"ToPty", <<"CloseTab", [n \in 1..Len(panes) |-> panes[n][2]]>>>>
    ELSE <<"ToPty", <<"ClosePane", panes[ClosedPane(i)][2]>>>>

\* the panes once the arm of a closing instruction has run
PanesAfterClose(i) ==
    IF i[1] = "CloseTab"
    THEN <<>>
    ELSE [n \in 1..(Len(panes) - 1) |->
             IF n < ClosedPane(i) THEN panes[n] ELSE panes[n + 1]]

\* the arm of a closing instruction closes something
ClosesSomething(i) ==
    IF i[1] = "CloseTab" THEN ~NoActiveTab ELSE ClosedPane(i) # 0

ScreenRecv ==
    /\ Running /\ pc["screen"] = "loop" /\ screenQ # <<>>
    /\ LET m == Head(screenQ)
           k == Kind(m)
       IN
       /\ Receive("screen", m)
       /\ screenQ' = Tail(screenQ)
       /\ CASE k = "Exit" ->
                 /\ pc' = [pc EXCEPT !["screen"] = AfterBreak]
                 /\ UNCHANGED <<appQ, tabs, panes, tab, pend, stdout, openingPane,
                                closingPane>>
            [] k \in TabDirected /\ NoActiveTab ->
                 \* unwrap() of None: the thread panics, the hook runs
                 /\ appQ' = HandlePanic(appQ, "screen")
                 /\ pc' = [pc EXCEPT !["screen"] = "dead"]
                 /\ UNCHANGED <<tabs, panes, tab, pend, stdout, openingPane,
                                closingPane>>
            [] k \in OpensPane /\ ~NoActiveTab ->
                 \* common/mod.rs:262-273: new_pane, horizontal_split, vertical_split
                 /\ panes' = Append(panes, m.instr)
                 /\ tab' = SplitTab(tab, SplitDirection(k), m.instr[2])
                 /\ openingPane' = FALSE
                 /\ UNCHANGED <<appQ, pc, tabs, pend, stdout, closingPane>>
            [] k = "NewTab" ->
                 \* common/mod.rs:362-366: new_tab
                 /\ tabs' = tabs + 1
                 /\ panes' = Append(panes, m.instr)
                 /\ tab' = [tree |-> Leaf(m.instr[2]), focus |-> m.instr[2]]
                 /\ openingPane' = FALSE
                 /\ UNCHANGED <<appQ, pc, pend, stdout, closingPane>>
            [] k = "ApplyLayout" ->
                 \* common/mod.rs:372-375: apply_layout, a pane for each pid
                 /\ tabs' = tabs + 1
                 /\ panes' = panes \o [i \in 1..Len(m.instr[3]) |->
                                           <<"ApplyLayout", m.instr[3][i]>>]
                 /\ tab' = [tree |-> LayoutTree(m.instr[3]), focus |-> m.instr[3][1]]
                 /\ openingPane' = FALSE
                 /\ UNCHANGED <<appQ, pc, pend, stdout, closingPane>>
            [] k \in AcksClosing /\ (k = "CloseTab" \/ ~NoActiveTab) ->
                 \* common/mod.rs:325-329, 351-355, 368-371
                 /\ tabs' = IF k = "CloseTab" /\ ~NoActiveTab THEN tabs - 1 ELSE tabs
                 /\ UNCHANGED openingPane
                 /\ tab' = IF k = "CloseTab"
                           THEN EmptyTab
                           ELSE CloseInTab(tab, ClosedId(m.instr))
                 /\ IF ~ClosesSomething(m.instr)
                    THEN /\ closingPane' = FALSE
                         /\ stdout' = Rendered(stdout, k)
                         /\ UNCHANGED <<appQ, pc, panes, pend>>
                    ELSE /\ panes' = PanesAfterClose(m.instr)
                         /\ LET out == Out("screen", m, "screen_app", ClosePty(m.instr))
                            IN IF AppFull
                               THEN /\ pend' = [pend EXCEPT !["screen"] = out]
                                    /\ pc' = [pc EXCEPT !["screen"] = "send_app"]
                                    /\ UNCHANGED <<appQ, stdout, closingPane>>
                               ELSE /\ appQ' = Send(appQ, out)
                                    /\ closingPane' = FALSE
                                    /\ stdout' = Rendered(stdout, k)
                                    /\ UNCHANGED <<pc, pend>>
            [] OTHER ->
                 /\ stdout' = Rendered(stdout, k)
                 /\ UNCHANGED <<appQ, pc, tabs, panes, tab, pend, openingPane,
                                closingPane>>
    /\ UNCHANGED <<pluginQ, ptyQ, serverBuf, clientBuf, nextPid, rawMode, exitCode,
                   envVars, mainVars>>
    /\ UNCHANGED <<hostVars, stateVars, uiPc>>

\* the send of the closing arm returns once the app bus has room; the arm goes on
\* with done_closing_pane() and, but for CloseTab, screen.render()
ScreenSendApp ==
    /\ Running /\ pc["screen"] = "send_app" /\ ~AppFull
    /\ appQ' = Send(appQ, pend["screen"])
    /\ pc' = [pc EXCEPT !["screen"] = "loop"]
    /\ pend' = [pend EXCEPT !["screen"] = NoMsg]
    /\ closingPane' = FALSE
    /\ stdout' = IF pend["screen"].instr[2][1] = "CloseTab"
                 THEN stdout
                 ELSE Append(stdout, "render")
    /\ UNCHANGED <<screenQ, pluginQ, ptyQ, serverBuf, clientBuf, slot, errCtx,
                   tabs, nextPid, rawMode, exitCode, envVars, mainVars>>
    /\ UNCHANGED <<panes, tab, hostVars, stateVars, uiPc, openingPane>>

----------------------------------------------------------------------------
(* The plugin host thread, common/mod.rs:395-505 *)

\* the variants of termion's Key the model tells apart, the bytes that parse to
\* none ("bad": input_bytes.keys() yields Err for them), and the modules a Load
\* can name: "tile" runs and traps in a key handler on the key "boom" only,
\* "start_trap" traps in _start, "draw_trap" in draw, "missing" is no file
ParsedKeySet == {"a", "b", "boom"}
PluginPaths == {"tile", "start_trap", "draw_trap", "missing"}

\* a serialization that writes every key as the key "a"
KeyToJsonSame(key) == <<"json", "a">>

\* serde_json::to_string(&key), common/mod.rs:476 and 493
KeyToJson(key) == <<"json", key>>

\* the ids of the loaded plugins: plugin_map.keys()
LoadedIds == {e[1] : e \in pluginMap}

\* the module of the loaded plugin pid
PathOf(pid) == (CHOOSE e \in pluginMap : e[1] = pid)[2]

\* a host that calls draw where it should run the module's entry point
EntryPointDraw == "draw"

\* common/mod.rs:448-451: the export Load calls before it stores the instance
EntryPoint == "_start"

\* zellij-tile/src/lib.rs:17-46: the methods of the tile an export runs; _start
\* is main(), which calls init() once
TileRuns(export) ==
    CASE export = "_start" -> <<"init">>
      [] export = "draw" -> <<"draw">>
      [] export = "handle_key" -> <<"handle_key">>
      [] export = "handle_global_key" -> <<"handle_global_key">>
      [] OTHER -> <<>>

\* the export traps: the wasm call returns Err, which the host unwraps
Traps(path, export, key) ==
    \/ path = "start_trap" /\ export = "_start"
    \/ path = "draw_trap" /\ export = "draw"
    \/ export \in {"handle_key", "handle_global_key"} /\ key = "boom"

\* the loop `for key in input_bytes.keys()` of common/mod.rs:472-480 and 489-497
\* on plugin pid: for every key that parsed, wasi_write_string, then the call;
\* it ends at the first call that traps
RECURSIVE DeliverKeys(_, _, _, _)
DeliverKeys(pid, path, handler, bytes) ==
    IF bytes = <<>> THEN [log |-> <<>>, trapped |-> FALSE]
    ELSE LET key == Head(bytes)
             step == <<<<"write", pid, KeyToJson(key)>>, <<"call", pid, handler>>>>
             rest == DeliverKeys(pid, path, handler, Tail(bytes))
         IN IF key \notin ParsedKeySet THEN rest
            ELSE IF Traps(path, handler, key) THEN [log |-> step, trapped |-> TRUE]
            ELSE [log |-> step \o rest.log, trapped |-> rest.trapped]

\* the loop `for (instance, plugin_env) in plugin_map.values()` of
\* common/mod.rs:486-498, the plugins taken in the order ord
RECURSIVE DeliverToAll(_, _)
DeliverToAll(ord, bytes) ==
    IF ord = <<>> THEN [log |-> <<>>, trapped |-> FALSE]
    ELSE LET one == DeliverKeys(Head(ord), PathOf(Head(ord)), "handle_global_key", bytes)
             rest == DeliverToAll(Tail(ord), bytes)
         IN IF one.trapped THEN one
            ELSE [log |-> one.log \o rest.log, trapped |-> rest.trapped]

\* the orders in which a HashMap can hand out the loaded plugins
MapOrders ==
    {ord \in [1..Cardinality(LoadedIds) -> LoadedIds] :
        \A i, j \in 1..Cardinality(LoadedIds) : ord[i] = ord[j] => i = j}

\* the wasm thread panics in the arm it is in: the hook runs, the thread ends
WasmPanics(log) ==
    /\ appQ' = HandlePanic(appQ, "wasm")
    /\ pc' = [pc EXCEPT !["wasm"] = "dead"]
    /\ pluginLog' = pluginLog \o log
    /\ UNCHANGED <<screenQ, pluginId, pluginMap, pidReplies>>

\* common/mod.rs:482 and 500: drop(send_screen_instructions.send(Render))
WasmRenders(m) ==
    screenQ' = IF Alive("screen")
               THEN Send(screenQ, Out("wasm", m, "wasm_screen", <<"Render">>))
               ELSE screenQ

\* a Load that stores the instance under the id of the plugin loaded before it
LoadKeyStale(id) == IF id = 0 THEN 0 ELSE id - 1

\* the key under which Load stores the new instance: plugin_id, common/mod.rs:453
LoadKey(id) == id

WasmRecv ==
    /\ Running /\ pc["wasm"] = "loop" /\ pluginQ # <<>>
    /\ LET m == Head(pluginQ)
           k == Kind(m)
       IN
       /\ Receive("wasm", m)
       /\ pluginQ' = Tail(pluginQ)
       /\ CASE k = "Exit" ->
                 /\ pc' = [pc EXCEPT !["wasm"] = AfterBreak]
                 /\ UNCHANGED <<appQ, screenQ, hostVars>>
            [] k = "Load" ->
                 \* common/mod.rs:403-456
                 LET path == m.instr[2]
                     start == <<<<"call", pluginId, EntryPoint>>>>
                 IN IF path = "missing" THEN WasmPanics(<<>>)
                    ELSE IF Traps(path, EntryPoint, "none") THEN WasmPanics(start)
                    ELSE /\ pluginLog' = pluginLog \o start
                         /\ pluginMap' = {e \in pluginMap : e[1] # LoadKey(pluginId)}
                                         \cup {<<LoadKey(pluginId), path>>}
                         /\ pidReplies' = Append(pidReplies, pluginId)
                         /\ pluginId' = pluginId + 1
                         /\ UNCHANGED <<appQ, screenQ, pc>>
            [] k = "Draw" ->
                 \* common/mod.rs:457-466; the reply on buf_tx is the plugin's stdout
                 LET pid == m.instr[2]
                     draw == <<<<"call", pid, "draw">>>>
                 IN IF pid \notin LoadedIds THEN WasmPanics(<<>>)
                    ELSE IF Traps(PathOf(pid), "draw", "none") THEN WasmPanics(draw)
                    ELSE /\ pluginLog' = pluginLog \o draw
                         /\ UNCHANGED <<appQ, screenQ, pc, pluginId, pluginMap,
                                        pidReplies>>
            [] k = "Input" ->
                 \* common/mod.rs:468-483
                 LET pid == m.instr[2] IN
                 IF pid \notin LoadedIds THEN WasmPanics(<<>>)
                 ELSE LET d == DeliverKeys(pid, PathOf(pid), "handle_key", m.instr[3])
                      IN IF d.trapped THEN WasmPanics(d.log)
                         ELSE /\ pluginLog' = pluginLog \o d.log
                              /\ WasmRenders(m)
                              /\ UNCHANGED <<appQ, pc, pluginId, pluginMap, pidReplies>>
            [] k = "GlobalInput" ->
                 \* common/mod.rs:484-501
                 \E ord \in MapOrders :
                    LET d == DeliverToAll(ord, m.instr[2])
                    IN IF d.trapped THEN WasmPanics(d.log)
                       ELSE /\ pluginLog' = pluginLog \o d.log
                            /\ WasmRenders(m)
                            /\ UNCHANGED <<appQ, pc, pluginId, pluginMap, pidReplies>>
            [] k = "Unload" ->
                 \* common/mod.rs:502: plugin_map.remove(&pid), whether loaded or not
                 /\ pluginMap' = {e \in pluginMap : e[1] # m.instr[2]}
                 /\ UNCHANGED <<appQ, screenQ, pc, pluginId, pluginLog, pidReplies>>
    /\ UNCHANGED <<ptyQ, serverBuf, clientBuf, pend, tabs, nextPid, termVars,
                   envVars, mainVars>>
    /\ UNCHANGED <<panes, tab, stateVars, cmdVars>>

----------------------------------------------------------------------------
(* The pty thread, server/mod.rs:58-115 *)

\* the values of opts.layout: no --layout, or the path of a layout file
LayoutArgs == {"None", "file"}

\* a server that uses the built-in layout whatever --layout says
MaybeLayoutTestOnly(layout, test) == IF test THEN "None" ELSE "default"

\* server/mod.rs:37-42: opts.layout.or(default_layout), where default_layout is
\* Some("default") except in a test build
MaybeLayout(layout, test) ==
    IF layout # "None" THEN layout ELSE IF test THEN "None" ELSE "default"

\* the number of leaves of a layout
LayoutLeaves(layout) == IF layout = "default" THEN 3 ELSE 2

\* PtyBus::spawn_terminals_for_layout: one spawn_terminal per leaf of the layout
LayoutPids(layout, pid) == [i \in 1..LayoutLeaves(layout) |-> pid + i - 1]

\* the children the arm of a PtyInstruction spawns
Spawned(k) ==
    IF k = "NewTab" /\ maybeLayout # "None" THEN LayoutLeaves(maybeLayout) ELSE 1

\* a pty thread that answers every spawn with a new pane
PtyAnswerNewPane(k, pid) ==
    IF k \in {"ClosePane", "CloseTab", "Quit"} THEN <<"None">> ELSE <<"NewPane", pid>>

\* the ScreenInstruction the pty thread answers a PtyInstruction with, if any
PtyAnswer(k, pid) ==
    CASE k = "SpawnTerminal" -> <<"NewPane", pid>>
      [] k = "SpawnTerminalVertically" -> <<"VerticalSplit", pid>>
      [] k = "SpawnTerminalHorizontally" -> <<"HorizontalSplit", pid>>
      [] k = "NewTab" -> IF maybeLayout # "None"
                         THEN <<"ApplyLayout", maybeLayout, LayoutPids(maybeLayout, pid)>>
                         ELSE <<"NewTab", pid>>
      [] OTHER -> <<"None">>

PtyRecv ==
    /\ Running /\ pc["pty"] = "loop" /\ ptyQ # <<>>
    /\ LET m == Head(ptyQ)
           k == Kind(m)
           out == Out("pty", m, "pty_server", <<"ToScreen", PtyAnswer(k, nextPid)>>)
       IN
       /\ Receive("pty", m)
       /\ ptyQ' = Tail(ptyQ)
       /\ CASE k = "Quit" ->
                 /\ pc' = [pc EXCEPT !["pty"] = AfterBreak]
                 /\ UNCHANGED <<pend, nextPid, serverBuf, closingPane>>
            [] k \in {"ClosePane", "CloseTab"} ->
                 \* server/mod.rs:103-110: close_pane / close_tab, then
                 \* command_is_executing.done_closing_pane()
                 /\ closingPane' = FALSE
                 /\ UNCHANGED <<pc, pend, nextPid, serverBuf>>
            [] OTHER ->
                 /\ nextPid' = nextPid + Spawned(k)
                 /\ UNCHANGED closingPane
                 /\ IF RingFull(serverBuf)
                    THEN /\ pend' = [pend EXCEPT !["pty"] = out]
                         /\ pc' = [pc EXCEPT !["pty"] = "send_server"]
                         /\ UNCHANGED serverBuf
                    ELSE /\ serverBuf' = Send(serverBuf, out)
                         /\ UNCHANGED <<pc, pend>>
    /\ UNCHANGED <<appQ, screenQ, pluginQ, clientBuf, tabs, termVars, envVars, mainVars>>
    /\ UNCHANGED <<panes, tab, hostVars, stateVars, uiPc, openingPane>>

\* the send of pty_bus.send_server_instructions returns once the ring has room
PtySend ==
    /\ Running /\ pc["pty"] = "send_server" /\ ~RingFull(serverBuf)
    /\ serverBuf' = Send(serverBuf, pend["pty"])
    /\ pc' = [pc EXCEPT !["pty"] = "loop"]
    /\ pend' = [pend EXCEPT !["pty"] = NoMsg]
    /\ UNCHANGED <<appQ, screenQ, pluginQ, ptyQ, clientBuf, slot, errCtx,
                   tabs, nextPid, termVars, envVars, mainVars>>
    /\ UNCHANGED <<panes, tab, hostVars, stateVars, cmdVars>>

----------------------------------------------------------------------------
(* The ipc_server thread, server/mod.rs:123-171 *)

\* what the arm of a ServerInstruction sends: <<destination, instruction>>.
\* The arm named Quit is the one ServerInstruction::Exit reaches; NewClient has
\* no arm of its own.
IpcDispatch(i) ==
    CASE i[1] = "OpenFile" -> <<"pty", <<"SpawnTerminal", i[2]>>>>
      [] i[1] = "SplitHorizontally" -> <<"pty", <<"SpawnTerminalHorizontally", "None">>>>
      [] i[1] = "SplitVertically" -> <<"pty", <<"SpawnTerminalVertically", "None">>>>
      [] i[1] = "MoveFocus" -> <<"app", <<"ToScreen", <<"MoveFocus">>>>>>
      [] i[1] = "ToPty" -> <<"pty", i[2]>>
      [] i[1] = "ToScreen" -> <<"app", <<"ToScreen", i[2]>>>>
      [] i[1] = "ClosePluginPane" -> <<"app", <<"ToPlugin", <<"Unload", i[2]>>>>>>
      [] i[1] = "Exit" -> <<"quit", <<"Quit">>>>
      [] OTHER -> <<"none", <<"None">>>>

IpcRecv ==
    /\ Running /\ pc["ipc_server"] = "loop" /\ serverBuf # <<>>
    /\ LET m == Head(serverBuf)
           d == IpcDispatch(m.instr)
       IN
       /\ Receive("ipc_server", m)
       /\ serverBuf' = Tail(serverBuf)
       /\ CASE d[1] = "pty" ->
                 /\ ptyQ' = Send(ptyQ, Out("ipc_server", m, "ipc_pty", d[2]))
                 /\ UNCHANGED <<appQ, pc, pend>>
            [] d[1] = "app" ->
                 IF AppFull
                 THEN /\ pend' = [pend EXCEPT !["ipc_server"] =
                                    Out("ipc_server", m, "ipc_app", d[2])]
                      /\ pc' = [pc EXCEPT !["ipc_server"] = "send_app"]
                      /\ UNCHANGED <<appQ, ptyQ>>
                 ELSE /\ appQ' = Send(appQ, Out("ipc_server", m, "ipc_app", d[2]))
                      /\ UNCHANGED <<ptyQ, pc, pend>>
            [] d[1] = "quit" ->
                 \* server/mod.rs:166-167
                 /\ ptyQ' = IF Alive("pty")
                            THEN Send(ptyQ, Out("ipc_server", m, "ipc_pty", d[2]))
                            ELSE ptyQ
                 /\ pc' = [pc EXCEPT !["ipc_server"] = "join_pty"]
                 /\ UNCHANGED <<appQ, pend>>
            [] OTHER ->
                 /\ UNCHANGED <<appQ, ptyQ, pc, pend>>
    /\ UNCHANGED <<screenQ, pluginQ, clientBuf, tabs, nextPid, termVars, envVars,
                   mainVars>>
    /\ UNCHANGED <<panes, tab, hostVars, stateVars, cmdVars>>

\* send_app_instructions.send(..) of the ipc_server thread returns once the bounded
\* channel has room
IpcSendApp ==
    /\ Running /\ pc["ipc_server"] = "send_app" /\ ~AppFull
    /\ appQ' = Send(appQ, pend["ipc_server"])
    /\ pc' = [pc EXCEPT !["ipc_server"] = "loop"]
    /\ pend' = [pend EXCEPT !["ipc_server"] = NoMsg]
    /\ UNCHANGED <<screenQ, pluginQ, ptyQ, serverBuf, clientBuf, slot, errCtx, tabs,
                   nextPid, termVars, envVars, mainVars>>
    /\ UNCHANGED <<panes, tab, hostVars, stateVars, cmdVars>>

\* server/mod.rs:167-168: join the pty thread, then leave the loop
IpcJoinPty ==
    /\ Running /\ pc["ipc_server"] = "join_pty" /\ ~Alive("pty")
    /\ pc' = [pc EXCEPT !["ipc_server"] = "done"]
    /\ UNCHANGED <<appQ, screenQ, pluginQ, ptyQ, serverBuf, clientBuf, slot, pend,
                   errCtx, tabs, nextPid, termVars, envVars, mainVars>>
    /\ UNCHANGED <<panes, tab, hostVars, stateVars, cmdVars>>

----------------------------------------------------------------------------
(* The router thread, common/mod.rs:531-543 *)

\* the variants of ClientInstruction, common/mod.rs:53-59
ClientKinds == {"ToScreen", "ClosePluginPane", "Error", "Exit"}

\* a conversion that turns ClosePluginPane into an Exit
FromClientClosing(i) ==
    IF i[1] = "ToScreen" THEN <<"ToScreen", i[2]>>
    ELSE IF i[1] = "Error" THEN <<"Error">> ELSE <<"Exit">>

\* impl From<ClientInstruction> for AppInstruction, common/mod.rs:166-177
FromClient(i) ==
    CASE i[1] = "ToScreen" -> <<"ToScreen", i[2]>>
      [] i[1] = "Error" -> <<"Error">>
      [] i[1] = "ClosePluginPane" -> <<"ToPlugin", <<"Unload", i[2]>>>>
      [] i[1] = "Exit" -> <<"Exit">>

\* a router whose IpcReceiver is made of the server's buffer
RouterInboundServer == "server"

\* the buffer the router's IpcReceiver is made of, common/mod.rs:530
RouterInbound == "client"

\* one turn of the router's loop: recv().unwrap(), update of the app sender with
\* the context as received, then break on Exit or forward on the app channel
RouterRecv ==
    /\ Running /\ pc["router"] = "loop"
    /\ LET buf == IF RouterInbound = "client" THEN clientBuf ELSE serverBuf IN
       /\ buf # <<>>
       /\ IF RouterInbound = "client"
          THEN clientBuf' = Tail(clientBuf) /\ UNCHANGED serverBuf
          ELSE serverBuf' = Tail(serverBuf) /\ UNCHANGED clientBuf
       /\ LET m == Head(buf) IN
          CASE Kind(m) \notin ClientKinds ->
                 \* what is no ClientInstruction does not deserialize: unwrap() panics
                 /\ appQ' = HandlePanic(appQ, "router")
                 /\ pc' = [pc EXCEPT !["router"] = "dead"]
                 /\ UNCHANGED <<slot, errCtx, pend>>
            [] Kind(m) = "Exit" ->
                 /\ Receive("router", m)
                 /\ pc' = [pc EXCEPT !["router"] = AfterBreak]
                 /\ UNCHANGED <<appQ, pend>>
            [] OTHER ->
                 /\ Receive("router", m)
                 /\ IF AppFull
                    THEN /\ pc' = [pc EXCEPT !["router"] = "send_app"]
                         /\ pend' = [pend EXCEPT !["router"] =
                                       Out("router", m, "router_app", FromClient(m.instr))]
                         /\ UNCHANGED appQ
                    ELSE /\ appQ' = Send(appQ, Out("router", m, "router_app",
                                                   FromClient(m.instr)))
                         /\ UNCHANGED <<pc, pend>>
    /\ UNCHANGED <<screenQ, pluginQ, ptyQ, tabs, nextPid, termVars, envVars, mainVars>>
    /\ UNCHANGED <<panes, tab, hostVars, stateVars, cmdVars>>

\* common/mod.rs:539-541: the send on the bounded app channel returns once it has
\* room
RouterSendApp ==
    /\ Running /\ pc["router"] = "send_app" /\ ~AppFull
    /\ appQ' = Send(appQ, pend["router"])
    /\ pc' = [pc EXCEPT !["router"] = "loop"]
    /\ pend' = [pend EXCEPT !["router"] = NoMsg]
    /\ UNCHANGED <<screenQ, pluginQ, ptyQ, serverBuf, clientBuf, slot, errCtx, tabs,
                   nextPid, termVars, envVars, mainVars>>
    /\ UNCHANGED <<panes, tab, hostVars, stateVars, cmdVars>>

----------------
(* main(), src/src/main.rs:26-60 *)

SplitArgs == {"None", "h", "v", "x"}
FileArgs == {"None", "file"}

CliArgs == [split : SplitArgs, move_focus : BOOLEAN, open_file : FileArgs]

NoArgs == [split |-> "None", move_focus |-> FALSE, open_file |-> "None"]

\* the branch main() takes: <<"send", instruction>>, <<"nothing">> (the arm
\* `_ => {}` of the match on the split direction) or <<"start">>
MainBranch(o) ==
    IF o.split # "None"
    THEN CASE o.split = "h" -> <<"send", <<"SplitHorizontally">>>>
           [] o.split = "v" -> <<"send", <<"SplitVertically">>>>
           [] OTHER -> <<"nothing">>
    ELSE IF o.move_focus THEN <<"send", <<"MoveFocus">>>>
    ELSE IF o.open_file # "None" THEN <<"send", <<"OpenFile", o.open_file>>>>
    ELSE <<"start">>

\* main.rs:27-58 up to the construction of the sender
MainParse ==
    /\ mainPc = "start"
    /\ mainPc' = CASE MainBranch(mainOpts)[1] = "send" -> "open"
                   [] MainBranch(mainOpts)[1] = "nothing" -> "exit0"
                   [] OTHER -> "session"
    /\ UNCHANGED <<pc, appQ, screenQ, pluginQ, ptyQ, serverBuf, clientBuf, slot, pend,
                   errCtx, tabs, nextPid, termVars, envVars, mainOpts, mainSent>>
    /\ UNCHANGED <<panes, tab, hostVars, stateVars, cmdVars>>

\* the sender on the server's buffer: SharedRingBuffer::open(MOSAIC_IPC_PIPE).unwrap()
\* (common/mod.rs:140-142) panics when the file is not there
MainOpen ==
    /\ mainPc = "open"
    /\ mainPc' = IF bufExists THEN "send" ELSE "exit101"
    /\ UNCHANGED <<pc, appQ, screenQ, pluginQ, ptyQ, serverBuf, clientBuf, slot, pend,
                   errCtx, tabs, nextPid, termVars, envVars, mainOpts, mainSent>>
    /\ UNCHANGED <<panes, tab, hostVars, stateVars, cmdVars>>

\* send(..).unwrap() on the ring buffer, then main returns
MainSend ==
    /\ mainPc = "send" /\ ~RingFull(serverBuf)
    /\ serverBuf' = Send(serverBuf, Msg(MainBranch(mainOpts)[2], EmptyCtx, "driveby", NoCtx))
    /\ mainSent' = Append(mainSent, MainBranch(mainOpts)[2])
    /\ mainPc' = "exit0"
    /\ UNCHANGED <<pc, appQ, screenQ, pluginQ, ptyQ, clientBuf, slot, pend, errCtx, tabs,
                   nextPid, termVars, envVars, mainOpts>>
    /\ UNCHANGED <<panes, tab, hostVars, stateVars, cmdVars>>

----------------------------------------------------------------------------
(* What reaches the session from outside its threads *)

\* a drive-by invocation of main() while the session runs, one of at most n
\* messages from outside
DriveByUpTo(n) ==
    /\ Running /\ nEnv < n /\ ~RingFull(serverBuf)
    /\ \E o \in CliArgs :
          /\ MainBranch(o)[1] = "send"
          /\ serverBuf' = Send(serverBuf, Msg(MainBranch(o)[2], EmptyCtx, "driveby", NoCtx))
    /\ nEnv' = nEnv + 1
    /\ UNCHANGED <<pc, appQ, screenQ, pluginQ, ptyQ, clientBuf, slot, pend, errCtx, tabs,
                   nextPid, termVars, layoutVars, bufExists, mainVars>>
    /\ UNCHANGED <<panes, tab, hostVars, stateVars, cmdVars>>

DriveBy == DriveByUpTo(MaxEnv)

\* what the holder of the client's buffer path sends back to the client
ReplyInstrs == {<<"ToScreen", <<"Render">>>>, <<"ClosePluginPane", 0>>, <<"Error">>,
                <<"Exit">>}

\* the server's sender on the client's buffer; its context is the one
\* IpcSenderWithContext::new gives it (common/mod.rs:131-136)
ServerReply ==
    /\ Running /\ nEnv < MaxEnv /\ ~RingFull(clientBuf)
    /\ \E i \in ReplyInstrs :
          clientBuf' = Send(clientBuf, Msg(i, EmptyCtx, "server", NoCtx))
    /\ nEnv' = nEnv + 1
    /\ UNCHANGED <<pc, appQ, screenQ, pluginQ, ptyQ, serverBuf, slot, pend, errCtx, tabs,
                   nextPid, termVars, layoutVars, bufExists, mainVars>>
    /\ UNCHANGED <<panes, tab, hostVars, stateVars, cmdVars>>

\* AppInstructions of input_loop: quit, a new pane, a key for the plugins
InputInstrs == {<<"Exit">>, <<"ToPty", <<"SpawnTerminal", "None">>>>,
                <<"ToPlugin", <<"GlobalInput", <<"a">>>>>>}

\* input_loop sends an AppInstruction, one of at most n messages from outside
InputSendUpTo(n) ==
    /\ Running /\ nEnv < n /\ ~AppFull
    /\ \E i \in InputInstrs :
          appQ' = Send(appQ, Msg(i, slot["input_app"], "stdin_handler", NoCtx))
    /\ nEnv' = nEnv + 1
    /\ UNCHANGED <<pc, screenQ, pluginQ, ptyQ, serverBuf, clientBuf, slot, pend, errCtx,
                   tabs, nextPid, termVars, layoutVars, bufExists, mainVars>>
    /\ UNCHANGED <<panes, tab, hostVars, stateVars, cmdVars>>

InputSend == InputSendUpTo(MaxEnv)

\* the actions of the input handler that wait on command_is_executing: what the
\* handler sends, with its app sender or with its screen sender
\* (common/mod.rs:512-514), and the wait it enters
UiActions ==
    {<<"app", <<"ToPty", <<"SpawnTerminal", "None">>>>, "wait_open">>,
     <<"screen", <<"CloseFocusedPane">>, "wait_close">>,
     <<"screen", <<"CloseTab">>, "wait_close">>}

\* the input handler marks the command as executing (opening_new_pane() or
\* closing_pane()), sends the instruction and starts to wait
UiSend ==
    /\ Running /\ uiPc = "idle" /\ nEnv < MaxEnv
    /\ \E a \in UiActions :
          /\ IF a[1] = "app"
             THEN /\ ~AppFull
                  /\ appQ' = Send(appQ, Msg(a[2], slot["input_app"], "stdin_handler",
                                            NoCtx))
                  /\ UNCHANGED screenQ
             ELSE /\ Alive("screen")
                  /\ screenQ' = Send(screenQ, Msg(a[2], EmptyCtx, "stdin_handler",
                                                  NoCtx))
                  /\ UNCHANGED appQ
          /\ uiPc' = a[3]
          /\ openingPane' = (openingPane \/ a[3] = "wait_open")
          /\ closingPane' = (closingPane \/ a[3] = "wait_close")
    /\ nEnv' = nEnv + 1
    /\ UNCHANGED <<pc, pluginQ, ptyQ, serverBuf, clientBuf, slot, pend, errCtx,
                   tabs, nextPid, termVars, layoutVars, bufExists, mainVars>>
    /\ UNCHANGED <<panes, tab, hostVars, stateVars>>

\* wait_until_new_pane_is_opened() / wait_until_pane_is_closed() return once
\* the flag they wait on is down
UiWakes ==
    /\ Running
    /\ \/ uiPc = "wait_open" /\ ~openingPane
       \/ uiPc = "wait_close" /\ ~closingPane
    /\ uiPc' = "idle"
    /\ UNCHANGED <<pc, appQ, screenQ, pluginQ, ptyQ, serverBuf, clientBuf, slot, pend,
                   errCtx, tabs, nextPid, termVars, envVars, mainVars>>
    /\ UNCHANGED <<panes, tab, hostVars, stateVars, openingPane, closingPane>>

\* the byte strings of the Input and GlobalInput instructions of the model
KeySeqs == {<<"a", "bad", "b">>, <<"a", "boom", "b">>}

\* the plugin ids instructions are addressed to
PluginPids == {0, 1}

\* the PluginInstructions the screen and its tabs send to the plugin host
HostInstrs ==
    {<<"Load", path>> : path \in PluginPaths}
    \cup {<<"Draw", pid>> : pid \in PluginPids}
    \cup {<<"Input", pid, bytes>> : pid \in PluginPids, bytes \in KeySeqs}
    \cup {<<"GlobalInput", bytes>> : bytes \in KeySeqs}
    \cup {<<"Unload", pid>> : pid \in PluginPids}

\* the screen's clone of send_plugin_instructions (common/mod.rs:232-239) sends
PluginSend ==
    /\ Running /\ nEnv < MaxHostEnv
    /\ \E i \in HostInstrs :
          pluginQ' = Send(pluginQ, Msg(i, slot["screen_plugin"], "screen", NoCtx))
    /\ nEnv' = nEnv + 1
    /\ UNCHANGED <<pc, appQ, screenQ, ptyQ, serverBuf, clientBuf, slot, pend, errCtx,
                   tabs, nextPid, termVars, layoutVars, bufExists, mainVars>>
    /\ UNCHANGED <<panes, tab, hostVars, stateVars, cmdVars>>

\* the states update_state writes, and what it sends: common/mod.rs:69-79
AppStates == {"s1", "s2"}
StateInstrs == {<<"GetState">>} \cup {<<"SetState", st>> : st \in AppStates}

StateSend ==
    /\ Running /\ nEnv < MaxHostEnv /\ ~AppFull
    /\ \E i \in StateInstrs :
          appQ' = Send(appQ, Msg(i, slot["input_app"], "stdin_handler", NoCtx))
    /\ nEnv' = nEnv + 1
    /\ UNCHANGED <<pc, screenQ, pluginQ, ptyQ, serverBuf, clientBuf, slot, pend, errCtx,
                   tabs, nextPid, termVars, layoutVars, bufExists, mainVars>>
    /\ UNCHANGED <<panes, tab, hostVars, stateVars, cmdVars>>

\* the threads that call update_state, each with its update function
Callers == {"f", "g"}

\* the update functions: each adds its own mark to the state it is given
UpdateFn(c, st) ==
    CASE st = "default" -> c
      [] c = "f" /\ st = "g" -> "gf"
      [] c = "g" /\ st = "f" -> "fg"
      [] OTHER -> st

\* common/mod.rs:74-76: update_state sends GetState with the sender of its own
\* channel, then waits on the receiver
UpdateGet ==
    /\ Running /\ ~AppFull
    /\ \E c \in Callers :
          /\ updPc[c] = "start"
          /\ appQ' = Send(appQ, Msg(<<"GetState", c>>, slot["input_app"], c, NoCtx))
          /\ updPc' = [updPc EXCEPT ![c] = "recv"]
    /\ UNCHANGED <<pc, screenQ, pluginQ, ptyQ, serverBuf, clientBuf, slot, pend, errCtx,
                   tabs, nextPid, termVars, envVars, mainVars>>
    /\ UNCHANGED <<panes, tab, hostVars, appState, stateReplies, stateRx, cmdVars>>

\* common/mod.rs:76-78: recv() returns the state the dispatcher sent, and
\* update_state sends SetState with the updated state
UpdateSet ==
    /\ Running /\ ~AppFull
    /\ \E c \in Callers :
          /\ updPc[c] = "recv" /\ stateRx[c] # <<>>
          /\ appQ' = Send(appQ, Msg(<<"SetState", UpdateFn(c, Head(stateRx[c]))>>,
                                    slot["input_app"], c, NoCtx))
          /\ stateRx' = [stateRx EXCEPT ![c] = Tail(@)]
          /\ updPc' = [updPc EXCEPT ![c] = "done"]
    /\ UNCHANGED <<pc, screenQ, pluginQ, ptyQ, serverBuf, clientBuf, slot, pend, errCtx,
                   tabs, nextPid, termVars, envVars, mainVars>>
    /\ UNCHANGED <<panes, tab, hostVars, appState, stateReplies, cmdVars>>

----------------------------------------------------------------------------
(* The session *)

Init ==
    /\ InitSession
    \* a session started without --layout, by a test build or any other
    /\ optsLayout = "None" /\ testRun \in BOOLEAN
    /\ maybeLayout = MaybeLayout(optsLayout, testRun)
    /\ bufExists = TRUE
    /\ mainPc = "idle" /\ mainOpts = NoArgs /\ mainSent = <<>>

AppStep == AppRecv \/ AppSendToPty \/ AppSendExit \/ AppJoin \/ AppErrorJoin
           \/ AppErrorExit
PtyStep == PtyRecv \/ PtySend
IpcStep == IpcRecv \/ IpcSendApp \/ IpcJoinPty
RouterStep == RouterRecv \/ RouterSendApp

Next ==
    \/ AppRecv \/ AppSendToPty \/ AppSendExit \/ AppJoin \/ AppErrorJoin \/ AppErrorExit
    \/ ScreenRecv
    \/ WasmRecv
    \/ PtyRecv \/ PtySend
    \/ IpcRecv \/ IpcSendApp \/ IpcJoinPty
    \/ RouterRecv \/ RouterSendApp
    \/ DriveBy
    \/ ServerReply
    \/ InputSend

Spec == Init /\ [][Next]_vars

\* every thread that can take a step eventually takes one
Fairness ==
    /\ WF_vars(AppStep)
    /\ WF_vars(ScreenRecv)
    /\ WF_vars(WasmRecv)
    /\ WF_vars(PtyStep)
    /\ WF_vars(IpcStep)
    /\ WF_vars(RouterStep)

FairSpec == Spec /\ Fairness

\* the session seen from the plugin host: the instructions of the screen and what
\* the host, the screen and the app dispatcher do with them
NextHost == PluginSend \/ WasmRecv \/ ScreenRecv \/ AppRecv

SpecHost == Init /\ [][NextHost]_vars

\* the session seen from the app state: update_state and input_loop send, the
\* app dispatcher handles, the ipc_server thread empties the server buffer
NextState == StateSend \/ InputSend \/ AppRecv \/ AppSendToPty \/ AppSendExit \/ IpcRecv

SpecState == Init /\ [][NextState]_vars

\* the session seen from the pty thread, started with or without --layout: what
\* the first NewTab and the spawns asked for by input_loop put on the screen
InitLayout ==
    /\ InitSession
    /\ optsLayout \in LayoutArgs /\ testRun \in BOOLEAN
    /\ maybeLayout = MaybeLayout(optsLayout, testRun)
    /\ bufExists = TRUE
    /\ mainPc = "idle" /\ mainOpts = NoArgs /\ mainSent = <<>>

NextLayout ==
    \/ InputSend \/ AppRecv \/ AppSendToPty \/ AppSendExit
    \/ IpcRecv \/ IpcSendApp \/ PtyRecv \/ PtySend \/ ScreenRecv

SpecLayout == InitLayout /\ [][NextLayout]_vars

\* the session seen from command_is_executing: the input handler opens and
\* closes panes and tabs and waits for each to be done
NextCmd ==
    \/ UiSend \/ UiWakes
    \/ AppRecv \/ AppSendToPty
    \/ ScreenRecv \/ ScreenSendApp
    \/ IpcRecv \/ IpcSendApp \/ PtyRecv \/ PtySend

SpecCmd == Init /\ [][NextCmd]_vars

\* the session seen from the layout of the tab: drive-by invocations and the
\* input handler split, open and close panes
NextTab ==
    \/ DriveBy \/ UiSend \/ UiWakes
    \/ AppRecv \/ AppSendToPty
    \/ ScreenRecv \/ ScreenSendApp
    \/ IpcRecv \/ IpcSendApp \/ PtyRecv \/ PtySend

SpecTab == Init /\ [][NextTab]_vars

\* the session seen from two threads that call update_state while input_loop
\* sends to the app dispatcher
NextUpdate ==
    \/ UpdateGet \/ UpdateSet
    \/ InputSend \/ AppRecv \/ AppSendToPty \/ AppSendExit \/ IpcRecv

SpecUpdate == Init /\ [][NextUpdate]_vars

\* the session under load on the route between the app dispatcher and the server:
\* input_loop and drive-by invocations send while both directions are busy
LoadInput == InputSendUpTo(MaxCycleEnv)
LoadDriveBy == DriveByUpTo(MaxCycleEnv)

NextCycle ==
    \/ LoadInput \/ LoadDriveBy
    \/ AppRecv \/ AppSendToPty \/ AppSendExit
    \/ IpcRecv \/ IpcSendApp \/ PtyRecv \/ PtySend
    \/ ScreenRecv

SpecCycle == Init /\ [][NextCycle]_vars

----------------------------------------------------------------------------
(* Shutdown and the panic path *)

\* the app dispatcher has taken AppInstruction::Exit from the app bus
TookExit == pc["app"] \in {"exit_send", "join_screen", "join_wasm", "join_ipc",
                           "join_router", "returned"}

\* the app dispatcher has taken AppInstruction::Error from the app bus
TookError == pc["app"] \in {"error_send", "ejoin_screen", "ejoin_wasm", "ejoin_ipc",
                            "error_exit", "exited"}

\* thread t is inside a send that waits for room
BlockedInSend(t) ==
    \/ pc[t] = "send_app" /\ AppFull
    \/ pc[t] \in {"send_topty", "exit_send", "error_send", "send_server"}
       /\ RingFull(serverBuf)

\* C1: cooperative shutdown terminates: once the app dispatcher has taken Exit
\* from the app bus, every worker ends and is joined, and start() reaches its
\* final terminal-restore step and returns. The runs in which a thread has
\* panicked or waits in a send are set aside here: the formula asks for the
\* return of start() in all the others.
C1_ExitTerminates ==
    TookExit ~> \/ pc["app"] = "returned"
                \/ \E t \in Threads : BlockedInSend(t) \/ pc[t] \in {"dead", "panicked"}

\* C2: panic path: once the app dispatcher has taken Error from the app bus, the
\* process eventually exits with code 1, in every interleaving.
C2_ErrorExits == TookError ~> (exitCode = "1")

\* the final text of the session: the goodbye line or the backtrace
FinalText == {"bye", "backtrace"}

\* the escape codes that hand the terminal back
RestoreCodes == {"restore_snapshot", "reset_style", "show_cursor"}

\* every restore code is in stdout at or before the first piece of final text
RestoredBeforeText ==
    \A i \in 1..Len(stdout) :
        stdout[i] \in FinalText =>
            \A c \in RestoreCodes : \E j \in 1..i : stdout[j] = c

\* C3: on both ways the session ends (normal Exit, exit code 0, and the Error
\* path, exit code 1) the terminal is restored before the final text is shown:
\* raw mode is unset, and leave-alternate-screen, style-reset and show-cursor are
\* in stdout no later than the goodbye line or the backtrace.
C3_RestoredBeforeFinalText ==
    exitCode \in {"0", "1"} =>
        /\ rawMode = FALSE
        /\ \E i \in 1..Len(stdout) : stdout[i] \in FinalText
        /\ RestoredBeforeText

----------------------------------------------------------------------------
(* Error contexts *)

\* C4: every message delivered to a handler loop has, when the body of the loop
\* runs, a non-empty ErrorContext whose last entry names the handling bus.
C4_ContextNamesHandler ==
    \A t \in Threads :
        errCtx[t] # NoCtx =>
            /\ errCtx[t] # EmptyCtx
            /\ errCtx[t][Len(errCtx[t])] = BusTag(t)

\* the messages that are queued on a bus or held by a send that has not returned
InFlight ==
    {appQ[i] : i \in 1..Len(appQ)} \cup {screenQ[i] : i \in 1..Len(screenQ)}
    \cup {pluginQ[i] : i \in 1..Len(pluginQ)} \cup {ptyQ[i] : i \in 1..Len(ptyQ)}
    \cup {serverBuf[i] : i \in 1..Len(serverBuf)}
    \cup {clientBuf[i] : i \in 1..Len(clientBuf)}
    \cup {pend[t] : t \in Threads}

\* C5: causal-chain inheritance: every message a handler sends while it processes
\* a received message carries the received chain extended with the handling bus;
\* none carries a context from an earlier message or from sender creation.
C5_ContextInherited ==
    \A m \in InFlight :
        (m.hctx # NoCtx /\ m.from # "router") => m.ctx = m.hctx

----------------------------------------------------------------------------
(* Order and capacity of the buses *)

\* qn is q after at most one receive at its head and at most one send at its tail
QueueStep(q, qn) ==
    \/ qn = q
    \/ Len(qn) = Len(q) + 1 /\ SubSeq(qn, 1, Len(q)) = q
    \/ q # <<>> /\ qn = Tail(q)
    \/ q # <<>> /\ Len(qn) = Len(q) /\ SubSeq(qn, 1, Len(q) - 1) = Tail(q)

\* something left q in the step from q to qn
Taken(q, qn) ==
    /\ q # <<>>
    /\ qn # q
    /\ ~(Len(qn) = Len(q) + 1 /\ SubSeq(qn, 1, Len(q)) = q)

\* the step is a turn of the loop of thread t on message m
Handles(t, m) ==
    /\ pc[t] = "loop"
    /\ errCtx'[t] = HandlerCtx(t, m.ctx)
    /\ \A u \in Threads \ {t} : errCtx'[u] = errCtx[u]

\* every bus loses messages at its head only, to its own loop, and gains them at
\* its tail only
FifoDelivery ==
    /\ QueueStep(appQ, appQ')
    /\ Taken(appQ, appQ') => Handles("app", Head(appQ))
    /\ QueueStep(screenQ, screenQ')
    /\ Taken(screenQ, screenQ') => Handles("screen", Head(screenQ))
    /\ QueueStep(pluginQ, pluginQ')
    /\ Taken(pluginQ, pluginQ') => Handles("wasm", Head(pluginQ))
    /\ QueueStep(ptyQ, ptyQ')
    /\ Taken(ptyQ, ptyQ') => Handles("pty", Head(ptyQ))
    /\ QueueStep(serverBuf, serverBuf')
    /\ Taken(serverBuf, serverBuf') => Handles("ipc_server", Head(serverBuf))
    /\ QueueStep(clientBuf, clientBuf')
    /\ Taken(clientBuf, clientBuf') => Handles("router", Head(clientBuf))

\* qn is q with one message of instruction i, sent by the app dispatcher, at its
\* tail
ForwardedTo(q, qn, i) ==
    /\ Len(qn) = Len(q) + 1
    /\ SubSeq(qn, 1, Len(q)) = q
    /\ qn[Len(qn)].instr = i
    /\ qn[Len(qn)].from = "app"

\* the app dispatcher puts what it takes from the app bus on the destination bus
\* before it takes the next message
AppForwardsInOrder ==
    /\ Taken(appQ, appQ') =>
          LET m == Head(appQ) IN
          CASE Kind(m) = "ToScreen" ->
                 pc'["app"] = "panicked" \/ ForwardedTo(screenQ, screenQ', m.instr[2])
            [] Kind(m) = "ToPlugin" ->
                 pc'["app"] = "panicked" \/ ForwardedTo(pluginQ, pluginQ', m.instr[2])
            [] Kind(m) = "ToPty" ->
                 \/ ForwardedTo(serverBuf, serverBuf', <<"ToPty", m.instr[2]>>)
                 \/ /\ pc'["app"] = "send_topty"
                    /\ pend'["app"].instr = <<"ToPty", m.instr[2]>>
            [] OTHER -> TRUE
    /\ pc["app"] = "send_topty" =>
          /\ ~Taken(appQ, appQ')
          /\ \/ pc'["app"] = "send_topty" /\ pend'["app"] = pend["app"]
             \/ pc'["app"] = "loop" /\ serverBuf' = Append(serverBuf, pend["app"])

Panics(t) == pc[t] \notin {"dead", "panicked"} /\ pc'[t] \in {"dead", "panicked"}

\* what the app channel holds when the hook of thread t runs
HookQueue(t) == IF t = "app" /\ pc["app"] = "loop" THEN Tail(appQ) ELSE appQ

\* the hook's try_send: Full leaves the queue as it is, otherwise Error is
\* enqueued with the context of the hook's sender
HookTrySend(t) ==
    IF Len(HookQueue(t)) >= AppChannelCapacity
    THEN appQ' = HookQueue(t)
    ELSE appQ' = Append(HookQueue(t), Msg(<<"Error">>, slot["hook_app"], t, NoCtx))

\* C7: backpressure on the app bus: the app channel never holds more messages
\* than its capacity, and try_send on it never blocks: when the channel is full
\* the panicking thread goes on, the message is dropped and the queue is
\* unchanged; otherwise the message is enqueued with the sender's ErrorContext.
C7_Backpressure ==
    /\ [](Len(appQ) <= AppChannelCapacity)
    /\ [][\A t \in Threads : Panics(t) => HookTrySend(t)]_vars

\* the screen thread has panicked on a full app channel: its Error was dropped
C7_ErrorDropped ==
    /\ pc["screen"] = "dead"
    /\ pc["app"] = "loop"
    /\ Len(appQ) = AppChannelCapacity
    /\ \A i \in 1..Len(appQ) : Kind(appQ[i]) # "Error"

----------------------------------------------------------------------------
(* Where threads wait, and who uses the ring buffers *)

\* C8: every thread of the session blocks only on the recv of its inbound
\* channel or on file I/O: no thread is ever blocked in a send, on the bounded
\* app channel or on a full ring buffer.
C8_NeverBlockedInSend == \A t \in Threads : ~BlockedInSend(t)

\* the senders that are inside a send on the server's buffer
ServerBufSending ==
    {t \in {"app", "pty"} :
        pc[t] \in {"send_topty", "exit_send", "error_send", "send_server"}}
    \cup (IF mainPc = "send" THEN {"driveby"} ELSE {})

\* C9, as claimed: each ring buffer is single-producer: in no reachable state do
\* two senders write to the server's buffer concurrently.
C9_SingleProducer == Cardinality(ServerBufSending) <= 1

\* C9, amended: each ring buffer has exactly one reader, the ipc_server thread for
\* the server's buffer and the router for the client's; the server's buffer takes
\* the messages of several producers, the app dispatcher, the pty thread and
\* drive-by processes, the client's buffer those of the server.
C9_OneReaderManyWriters ==
    /\ [](\A i \in 1..Len(serverBuf) : serverBuf[i].from \in {"app", "pty", "driveby"})
    /\ [](\A i \in 1..Len(clientBuf) : clientBuf[i].from = "server")
    /\ [][/\ Taken(serverBuf, serverBuf') =>
                /\ Handles("ipc_server", Head(serverBuf))
                /\ pc'["router"] = pc["router"]
          /\ Taken(clientBuf, clientBuf') =>
                /\ Handles("router", Head(clientBuf))
                /\ pc'["ipc_server"] = pc["ipc_server"]]_vars

\* the app dispatcher and the pty thread are both inside a send on the server's
\* buffer, which holds a message of a third sender
C9_TwoProducersAtOnce ==
    /\ pc["app"] = "send_topty"
    /\ pc["pty"] = "send_server"
    /\ serverBuf # <<>> /\ serverBuf[1].from = "driveby"

----------------------------------------------------------------------------
(* One invocation of main() *)

\* no session is running: every thread of the last one, if any, has ended
NoSession ==
    /\ pc = [t \in Threads |-> "done"]
    /\ appQ = <<>> /\ screenQ = <<>> /\ pluginQ = <<>> /\ ptyQ = <<>>
    /\ serverBuf = <<>> /\ clientBuf = <<>>
    /\ slot = [s \in Senders |-> EmptyCtx]
    /\ pend = [t \in Threads |-> NoMsg]
    /\ errCtx = [t \in Threads |-> NoCtx]
    /\ tabs = 0 /\ nextPid = 1
    /\ stdout = <<>> /\ rawMode = FALSE /\ exitCode = "none"
    /\ nEnv = 0
    /\ panes = <<>>
    /\ pluginId = 0 /\ pluginMap = {} /\ pluginLog = <<>> /\ pidReplies = <<>>
    /\ appState = "default" /\ stateReplies = <<>>
    /\ updPc = [c \in {"f", "g"} |-> "start"] /\ stateRx = [c \in {"f", "g"} |-> <<>>]
    /\ uiPc = "idle" /\ openingPane = FALSE /\ closingPane = FALSE
    /\ tab = [tree |-> <<"empty">>, focus |-> 0]

\* main() is started with any arguments, beside a running session or beside none
InitMain ==
    /\ \/ InitSession /\ bufExists = TRUE
       \/ NoSession /\ bufExists \in BOOLEAN
    /\ optsLayout = "None" /\ testRun \in BOOLEAN
    /\ maybeLayout = MaybeLayout(optsLayout, testRun)
    /\ mainPc = "start" /\ mainOpts \in CliArgs /\ mainSent = <<>>

NextMain == MainParse \/ MainOpen \/ MainSend \/ IpcRecv \/ PtyRecv \/ PtySend

SpecMain == InitMain /\ [][NextMain]_vars

\* at least one of --split, --move-focus, --open-file is present
AnyPresent(o) == o.split # "None" \/ o.move_focus \/ o.open_file # "None"

\* main() has ended, or has gone on into start()
MainEnded == mainPc \in {"exit0", "exit101", "session"}

\* C10: a drive-by invocation sends exactly one server instruction and never
\* starts a session: for every combination of --split <c>, --move-focus and
\* --open-file <path> with at least one present, and the server's buffer there,
\* the process puts exactly one ServerInstruction on the buffer
\* (SplitHorizontally or SplitVertically, MoveFocus, or OpenFile(path)) and exits
\* without calling start().
C10_DriveBySendsOne ==
    (MainEnded /\ AnyPresent(mainOpts) /\ bufExists) =>
        /\ mainPc = "exit0"
        /\ Len(mainSent) = 1
        /\ mainSent[1] \in {<<"SplitHorizontally">>, <<"SplitVertically">>,
                            <<"MoveFocus">>, <<"OpenFile", mainOpts.open_file>>}

\* the invocation was made to send an instruction, and no server is running
DriveByWithoutServer == MainBranch(mainOpts)[1] = "send" /\ pc["ipc_server"] = "done"

\* C11: a drive-by invocation made while no server is running fails: it exits
\* non-zero and puts no instruction on a buffer, also when a previous session
\* has ended (and has left the file of its ring buffer behind).
C11_DriveByFailsWithoutServer ==
    (MainEnded /\ DriveByWithoutServer) => mainPc = "exit101" /\ mainSent = <<>>

----------------------------------------------------------------------------
(* The way of a drive-by split to the screen *)

SplitDirs == {"h", "v"}

\* the names a split goes by on its way: main.rs:33-41, server/mod.rs:137-146
\* and 74-91, common/mod.rs:266-273
SplitNames(d) ==
    IF d = "h"
    THEN [server |-> "SplitHorizontally", pty |-> "SpawnTerminalHorizontally",
          screen |-> "HorizontalSplit"]
    ELSE [server |-> "SplitVertically", pty |-> "SpawnTerminalVertically",
          screen |-> "VerticalSplit"]

\* instruction i is a split of direction d at some stage of that way
SplitStage(d, i) ==
    \/ i[1] \in {SplitNames(d).server, SplitNames(d).pty, SplitNames(d).screen}
    \/ i[1] \in {"ToScreen", "ToPty"}
       /\ i[2][1] \in {SplitNames(d).pty, SplitNames(d).screen}

\* the splits of direction d in queue q
SplitsIn(d, q) == Cardinality({i \in 1..Len(q) : SplitStage(d, q[i].instr)})

\* the splits of direction d that are on their way
SplitsUnderWay(d) ==
    SplitsIn(d, serverBuf) + SplitsIn(d, ptyQ) + SplitsIn(d, appQ) + SplitsIn(d, screenQ)
    + Cardinality({t \in Threads : SplitStage(d, pend[t].instr)})

\* the splits of direction d the screen has applied
SplitsApplied(d) == Cardinality({i \in 1..Len(panes) : panes[i][1] = SplitNames(d).screen})

\* the step puts a split of direction d on the server buffer from outside
SplitArrives(d) ==
    /\ nEnv' = nEnv + 1
    /\ Len(serverBuf') = Len(serverBuf) + 1
    /\ serverBuf'[Len(serverBuf')].instr = <<SplitNames(d).server>>

\* the session goes on: no exit or error has been taken, no thread has panicked
SessionGoesOn ==
    /\ Running /\ ~TookExit /\ ~TookError
    /\ \A t \in Threads : pc[t] \notin {"dead", "panicked"}

\* every step keeps the number of splits, under way or applied, but for the one
\* that arrives and for what the panic of a thread loses
SplitsKept ==
    \A d \in SplitDirs :
        LET before == SplitsUnderWay(d) + SplitsApplied(d)
            after == SplitsUnderWay(d)' + SplitsApplied(d)'
        IN /\ SplitArrives(d) => after = before + 1
           /\ ~SplitArrives(d) => after <= before
           /\ (~SplitArrives(d) /\ \A t \in Threads : ~Panics(t)) => after = before
           /\ SplitsApplied(d)' >= SplitsApplied(d)

\* the panes of the screen are the terminals of distinct spawn_terminal calls
PanesOfSpawnedTerminals ==
    /\ \A i \in 1..Len(panes) : panes[i][2] \in 1..(nextPid - 1)
    /\ \A i, j \in 1..Len(panes) : panes[i][2] = panes[j][2] => i = j

----------------------------------------------------------------------------
(* What the router and the ipc_server thread forward *)

\* the AppInstruction that matches a ClientInstruction, as the claim lists them
MatchingAppInstruction(i) ==
    CASE i[1] = "ToScreen" -> <<"ToScreen", i[2]>>
      [] i[1] = "Error" -> <<"Error">>
      [] i[1] = "ClosePluginPane" -> <<"ToPlugin", <<"Unload", i[2]>>>>
      [] i[1] = "Exit" -> <<"Exit">>

\* thread t sends instruction i on queue q in this step: it is at the tail of
\* qn, or in the send of t that waits for room
SendsOne(t, q, qn, i) ==
    \/ /\ Len(qn) = Len(q) + 1
       /\ qn = Append(q, qn[Len(qn)])
       /\ qn[Len(qn)].instr = i /\ qn[Len(qn)].from = t
       /\ pend'[t] = NoMsg
    \/ /\ qn = q
       /\ pend[t] = NoMsg /\ pend'[t].instr = i /\ pend'[t].from = t

\* thread t sends nothing on queue q in this step
SendsNone(t, q, qn) == qn = q /\ pend'[t] = pend[t]

\* the router takes no instruction while a send of it waits, and a send that
\* waits ends with its message at the tail of the app bus
RouterSendsBeforeNext ==
    pc["router"] = "send_app" =>
        /\ ~Taken(clientBuf, clientBuf')
        /\ \/ pend'["router"] = pend["router"] /\ pc'["router"] = "send_app"
           \/ appQ' = Append(appQ, pend["router"]) /\ pc'["router"] = "loop"

\* C13, as claimed: the router forwards each ClientInstruction it takes from the
\* client buffer, Exit included, as exactly one matching AppInstruction on the
\* app bus.
C13_RouterForwardsEach ==
    [][Taken(clientBuf, clientBuf') =>
          SendsOne("router", appQ, appQ',
                   MatchingAppInstruction(Head(clientBuf).instr))]_vars

\* C13, amended: the router forwards each ClientInstruction other than Exit, in
\* arrival order, as exactly one matching AppInstruction on the app bus (the send
\* waits while the bus is full, and is over before the next instruction is
\* taken); on Exit it forwards nothing and ends its loop.
C13_RouterForwardsButExit ==
    [][/\ Taken(clientBuf, clientBuf') =>
             IF Kind(Head(clientBuf)) = "Exit"
             THEN SendsNone("router", appQ, appQ') /\ pc'["router"] = "done"
             ELSE SendsOne("router", appQ, appQ',
                           MatchingAppInstruction(Head(clientBuf).instr))
       /\ RouterSendsBeforeNext]_vars

\* the router has forwarded a ClosePluginPane and has then ended on Exit, of which
\* the app bus holds nothing
C13_ForwardedThenExit ==
    /\ pc["router"] = "done"
    /\ appQ # <<>> /\ appQ[Len(appQ)].from = "router"
    /\ appQ[Len(appQ)].instr = <<"ToPlugin", <<"Unload", 0>>>>

\* what the ipc_server thread is to send for a ServerInstruction, as the claims
\* list it: <<destination bus, instruction>>; NewClient is to trigger a NewTab
ClaimedDispatch(i) ==
    CASE i[1] = "OpenFile" -> <<"pty", <<"SpawnTerminal", i[2]>>>>
      [] i[1] = "SplitHorizontally" -> <<"pty", <<"SpawnTerminalHorizontally", "None">>>>
      [] i[1] = "SplitVertically" -> <<"pty", <<"SpawnTerminalVertically", "None">>>>
      [] i[1] = "ToPty" -> <<"pty", i[2]>>
      [] i[1] = "MoveFocus" -> <<"app", <<"ToScreen", <<"MoveFocus">>>>>>
      [] i[1] = "ToScreen" -> <<"app", <<"ToScreen", i[2]>>>>
      [] i[1] = "ClosePluginPane" -> <<"app", <<"ToPlugin", <<"Unload", i[2]>>>>>>
      [] i[1] = "NewClient" -> <<"pty", <<"NewTab">>>>
      [] OTHER -> <<"none", <<"None">>>>

\* the step in which the ipc_server thread takes a ServerInstruction of the set
\* kinds sends exactly one message, the claimed one, on the claimed bus
IpcDispatchesAsClaimed(kinds) ==
    (Taken(serverBuf, serverBuf') /\ Kind(Head(serverBuf)) \in kinds) =>
        LET d == ClaimedDispatch(Head(serverBuf).instr) IN
        CASE d[1] = "pty" ->
               SendsOne("ipc_server", ptyQ, ptyQ', d[2]) /\ appQ' = appQ
          [] d[1] = "app" ->
               SendsOne("ipc_server", appQ, appQ', d[2]) /\ ptyQ' = ptyQ
          [] OTHER -> FALSE

\* the variants of ServerInstruction but Exit, common/mod.rs:41-51
NonExitServerKinds == {"OpenFile", "SplitHorizontally", "SplitVertically", "MoveFocus",
                       "NewClient", "ToPty", "ToScreen", "ClosePluginPane"}

\* C14: the ipc_server thread handles every ServerInstruction variant a client
\* can send and dispatches each non-exit one as exactly one message to the right
\* destination.
C14_IpcDispatchesEach == [][IpcDispatchesAsClaimed(NonExitServerKinds)]_vars

\* C15: when the ipc_server thread receives NewClient it triggers exactly one
\* PTY NewTab: the NewTab of a session is put on the pty bus in the step that
\* handles its NewClient, and not before.
C15_NewClientTriggersNewTab ==
    /\ [][IpcDispatchesAsClaimed({"NewClient"})]_vars
    /\ []((\E i \in 1..Len(serverBuf) : Kind(serverBuf[i]) = "NewClient")
            => \A j \in 1..Len(ptyQ) : Kind(ptyQ[j]) # "NewTab")

----------------------------------------------------------------------------
(* The plugin host *)

\* the plugin host takes the instruction at the head of its bus in this step
HostTakes(kind) == Taken(pluginQ, pluginQ') /\ Kind(Head(pluginQ)) = kind

\* what the step has added to the log of the host
NewEvents == SubSeq(pluginLog', Len(pluginLog) + 1, Len(pluginLog'))

\* the step in which a Load replies: the id is the value of plugin_id, no loaded
\* plugin has it, and the new instance, and nothing else new, is stored under it
LoadStoresUnderRepliedId ==
    pidReplies' # pidReplies =>
        /\ HostTakes("Load")
        /\ pidReplies' = Append(pidReplies, pluginId)
        /\ pluginId \notin LoadedIds
        /\ pluginMap' = pluginMap \cup {<<pluginId, Head(pluginQ).instr[2]>>}
        /\ pluginId' = pluginId + 1

\* C16: plugin ids: each Load replies with the next integer id (0, 1, 2, ... in
\* Load order), so the replied ids are strictly increasing, pairwise distinct and
\* never reused after Unload, and the replied id is the key under which the new
\* instance is stored in the plugin map.
C16_PluginIds ==
    /\ [](\A i \in 1..Len(pidReplies) : pidReplies[i] = i - 1)
    /\ [](pluginId = Len(pidReplies) /\ LoadedIds \subseteq 0..(pluginId - 1))
    /\ [][LoadStoresUnderRepliedId]_vars

\* two plugins have been loaded and the first unloaded: the second has id 1
C16_SecondLoadAfterUnload ==
    pidReplies = <<0, 1>> /\ LoadedIds = {1} /\ pc["wasm"] = "loop"

\* C17: after Unload(pid), a subsequent Input(pid, bytes) is silently dropped: no
\* handler is invoked, the plugin host does not fail and goes on with its loop,
\* and no Error is posted.
C17_InputAfterUnloadDropped ==
    [][(/\ HostTakes("Input")
        /\ Head(pluginQ).instr[2] \in 0..(pluginId - 1)
        /\ Head(pluginQ).instr[2] \notin LoadedIds)
          => (pc'["wasm"] = "loop" /\ NewEvents = <<>> /\ appQ' = appQ)]_vars

\* a call of the plugin traps while the host handles instruction i
TrapsIn(i) ==
    CASE i[1] = "Load" -> Traps(i[2], "_start", "none")
      [] i[1] = "Draw" -> i[2] \in LoadedIds /\ Traps(PathOf(i[2]), "draw", "none")
      [] i[1] = "Input" ->
             i[2] \in LoadedIds
             /\ DeliverKeys(i[2], PathOf(i[2]), "handle_key", i[3]).trapped
      [] i[1] = "GlobalInput" -> \E ord \in MapOrders : DeliverToAll(ord, i[2]).trapped
      [] OTHER -> FALSE

\* C18: a trap raised by a plugin while the host runs its entry point, draw,
\* handle_key or handle_global_key does not abort the session: the host goes on
\* with its loop and no AppInstruction::Error results.
C18_TrapDoesNotAbort ==
    [][(Taken(pluginQ, pluginQ') /\ TrapsIn(Head(pluginQ).instr))
          => (pc'["wasm"] = "loop" /\ appQ' = appQ)]_vars

\* the key a plugin reads from its stdin: get_key of the tile library parses what
\* the host wrote
JsonToKey(str) == IF str[1] = "json" THEN str[2] ELSE "unreadable"

\* what the delivery of bytes to plugin pid is to be: for every key that parses,
\* in input order, the key on the stdin of pid, then one call of the handler
RECURSIVE KeyDelivery(_, _, _)
KeyDelivery(pid, handler, bytes) ==
    IF bytes = <<>> THEN <<>>
    ELSE IF Head(bytes) \notin ParsedKeySet THEN KeyDelivery(pid, handler, Tail(bytes))
    ELSE <<<<"stdin", pid, Head(bytes)>>, <<"call", pid, handler>>>>
         \o KeyDelivery(pid, handler, Tail(bytes))

\* the new events that concern plugin pid, a write shown as the key it reads
RECURSIVE SeenBy(_, _)
SeenBy(pid, events) ==
    IF events = <<>> THEN <<>>
    ELSE LET e == Head(events)
             rest == SeenBy(pid, Tail(events))
         IN IF e[2] # pid THEN rest
            ELSE IF e[1] = "write" THEN <<<<"stdin", pid, JsonToKey(e[3])>>>> \o rest
            ELSE <<e>> \o rest

\* s is the beginning of t
IsPrefix(s, t) == Len(s) <= Len(t) /\ SubSeq(t, 1, Len(s)) = s

\* what plugin pid sees of the step is the delivery d: all of it, or, when the
\* host has panicked on a trap, a beginning of it
Delivered(pid, d) ==
    IF pc'["wasm"] = "loop" THEN SeenBy(pid, NewEvents) = d
    ELSE IsPrefix(SeenBy(pid, NewEvents), d)

\* C19: key delivery to plugins: Input(pid, bytes) invokes handle_key only on
\* plugin pid and GlobalInput(bytes) invokes handle_global_key on every loaded
\* plugin; for each plugin concerned and each key that parses, in input order,
\* the key is written to the stdin of that plugin once and immediately before
\* one call of the handler; keys that do not parse cause neither.
C19_KeyDelivery ==
    [][/\ (HostTakes("Input") /\ Head(pluginQ).instr[2] \in LoadedIds) =>
             LET i == Head(pluginQ).instr IN
             \A pid \in PluginPids :
                 Delivered(pid, IF pid = i[2] THEN KeyDelivery(pid, "handle_key", i[3])
                                ELSE <<>>)
       /\ HostTakes("GlobalInput") =>
             LET i == Head(pluginQ).instr IN
             \A pid \in PluginPids :
                 Delivered(pid, IF pid \in LoadedIds
                                THEN KeyDelivery(pid, "handle_global_key", i[2])
                                ELSE <<>>)]_vars

\* a GlobalInput has been delivered to two loaded plugins, the unparsable key
\* left out, and the host goes on
C19_BroadcastDelivered ==
    /\ pc["wasm"] = "loop" /\ LoadedIds = {0, 1}
    /\ \A pid \in {0, 1} :
          SelectSeq(pluginLog, LAMBDA e : e[2] = pid /\ e[3] # "_start")
            = <<<<"write", pid, KeyToJson("a")>>, <<"call", pid, "handle_global_key">>,
                <<"write", pid, KeyToJson("b")>>, <<"call", pid, "handle_global_key">>>>

----------------------------------------------------------------------------
(* The app state *)

\* the app dispatcher takes the instruction at the head of the app bus
AppTakes(kind) == Taken(appQ, appQ') /\ Kind(Head(appQ)) = kind

\* C20: AppState is accessed through messages only: GetState replies with a copy
\* of the state written by the most recent SetState handled before it (the
\* default state if none) and leaves the state unchanged; SetState(s) replaces
\* the state with s and sends nothing; no other step changes the state or
\* replies with it.
C20_AppStateByMessages ==
    [][/\ AppTakes("GetState") =>
             /\ stateReplies' = Append(stateReplies, appState)
             /\ appState' = appState
       /\ AppTakes("SetState") =>
             /\ appState' = Head(appQ).instr[2]
             /\ stateReplies' = stateReplies
             /\ screenQ' = screenQ /\ pluginQ' = pluginQ /\ serverBuf' = serverBuf
             /\ pend' = pend
       /\ ~(AppTakes("GetState") \/ AppTakes("SetState")) =>
             appState' = appState /\ stateReplies' = stateReplies]_vars

\* two SetStates and a GetState have been handled: the reply is the later state
C20_LatestStateReplied ==
    stateReplies = <<"s2">> /\ appState = "s2" /\ appQ = <<>> /\ nEnv = 3

----------------------------------------------------------------------------
(* New tabs *)

\* the pty thread takes an instruction of this kind in the step
PtyTakes(kind) == Taken(ptyQ, ptyQ') /\ Kind(Head(ptyQ)) = kind

\* the pids of the children spawned in the step
SpawnedPids == nextPid..(nextPid' - 1)

\* C21: on PtyInstruction::NewTab the pty thread, if a layout is configured,
\* spawns one child per leaf of the layout and submits one ApplyLayout with the
\* layout and the pids of these children; otherwise it spawns exactly one child
\* and submits exactly one ScreenInstruction::NewTab with the pid of that child.
\* A layout is configured when --layout is given (the layout is that file), and
\* when it is not, outside test runs: then it is the built-in default layout.
C21_NewTabSpawns ==
    /\ [](/\ maybeLayout # "None" <=> (optsLayout # "None" \/ ~testRun)
          /\ optsLayout # "None" => maybeLayout = optsLayout
          /\ (optsLayout = "None" /\ ~testRun) => maybeLayout = "default")
    /\ [][PtyTakes("NewTab") =>
            IF maybeLayout # "None"
            THEN /\ Cardinality(SpawnedPids) = LayoutLeaves(maybeLayout)
                 /\ \E pids \in [1..LayoutLeaves(maybeLayout) -> SpawnedPids] :
                       /\ \A i, j \in DOMAIN pids : pids[i] = pids[j] => i = j
                       /\ SendsOne("pty", serverBuf, serverBuf',
                                   <<"ToScreen", <<"ApplyLayout", maybeLayout, pids>>>>)
            ELSE /\ nextPid' = nextPid + 1
                 /\ SendsOne("pty", serverBuf, serverBuf',
                             <<"ToScreen", <<"NewTab", nextPid>>>>)]_vars

\* the screen has opened the tab of a layout file given with --layout, with one
\* pane for each of its leaves
C21_LayoutFileApplied ==
    /\ optsLayout = "file" /\ tabs = 1
    /\ Len(panes) = LayoutLeaves("file")
    /\ \A i \in 1..Len(panes) : panes[i][1] = "ApplyLayout"

----------------------------------------------------------------------------
(* Waiting on command_is_executing *)

\* the screen thread ends, in this step, the arm of an instruction of these kinds
ScreenCompletes(kinds) ==
    \/ /\ Taken(screenQ, screenQ') /\ Kind(Head(screenQ)) \in kinds
       /\ pc'["screen"] = "loop"
    \/ /\ pc["screen"] = "send_app" /\ pc'["screen"] = "loop"
       /\ "CloseFocusedPane" \in kinds

\* the instruction a message carries to its last bus
Inner(i) == IF i[1] \in {"ToScreen", "ToPty", "ToPlugin"} THEN i[2] ELSE i

\* a spawn asked for by the input handler, or the pane that answers it, is still
\* on its way to the screen
OpenOnItsWay == \E m \in InFlight : Inner(m.instr)[1] \in {"SpawnTerminal", "NewPane"}

\* a close asked for by the input handler is still on its way to the screen
CloseOnItsWay ==
    \E i \in 1..Len(screenQ) : Kind(screenQ[i]) \in {"CloseFocusedPane", "CloseTab"}

\* the wait of the input handler for a close is released in this step
CloseReleased == uiPc = "wait_close" /\ closingPane /\ ~closingPane'

\* the wait of the input handler for an open is released in this step
OpenReleased == uiPc = "wait_open" /\ openingPane /\ ~openingPane'

\* C22: an action of the input handler that waits on command_is_executing is
\* released only by the screen thread's acknowledgement for that action: the wait
\* for a close only in a step of the screen thread that ends the arm of
\* CloseFocusedPane, ClosePane or CloseTab, with the close the handler asked for
\* no longer on its way; the wait for an open only in a step of the screen thread
\* that ends the arm of NewPane, HorizontalSplit, VerticalSplit, NewTab or
\* ApplyLayout, with the pane the handler asked for no longer on its way.
C22_ReleasedByScreenAck ==
    [][/\ CloseReleased => (ScreenCompletes(AcksClosing) /\ ~CloseOnItsWay')
       /\ OpenReleased => (ScreenCompletes(AcksOpening) /\ ~OpenOnItsWay')]_vars

----------------------------------------------------------------------------
(* The active tab *)

\* the screen thread takes an instruction of these kinds in the step
ScreenTakes(kinds) == Taken(screenQ, screenQ') /\ Kind(Head(screenQ)) \in kinds

\* C23: an active tab exists whenever the screen thread handles a tab-directed
\* instruction (Pty, NewPane, the splits, WriteCharacter, resize, focus, scroll,
\* close pane, SetSelectable / SetMaxHeight / SetInvisibleBorders, fullscreen
\* toggle): in every interleaving of startup and of CloseTab with the other
\* producers, no such instruction is taken from the screen bus while the screen
\* has no active tab.
C23_ActiveTabWhenHandled == [][ScreenTakes(TabDirected) => ~NoActiveTab]_vars

----------------------------------------------------------------------------
(* Split and close *)

\* the sizes of the terminal the layout is drawn on, the one of the scenario and
\* one with odd sides
ScreenSizes == {<<80, 24>>, <<81, 25>>}

\* the rectangles of the panes of tab tb on a terminal of size ws
Drawn(tb, ws) == Rects(tb.tree, 0, 0, ws[1], ws[2])

\* tab tb once direction d is split for new pane n and the new pane is closed
\* as the focused pane
SplitThenClose(tb, d, n) == CloseInTab(SplitTab(tb, d, n), SplitTab(tb, d, n).focus)

\* the scenario: pane 1 alone on 80x24, VerticalSplit(2), CloseFocusedPane
ScenarioHolds ==
    LET one == [tree |-> Leaf(1), focus |-> 1]
        two == SplitTab(one, "v", 2)
    IN tab = one =>
         /\ Drawn(one, <<80, 24>>)
               = {[id |-> 1, x |-> 0, y |-> 0, cols |-> 80, rows |-> 24]}
         /\ Drawn(two, <<80, 24>>)
               = {[id |-> 1, x |-> 0, y |-> 0, cols |-> 40, rows |-> 24],
                  [id |-> 2, x |-> 40, y |-> 0, cols |-> 40, rows |-> 24]}
         /\ two.focus = 2
         /\ Drawn(CloseInTab(two, two.focus), <<80, 24>>) = Drawn(one, <<80, 24>>)

\* C24: split followed by its inverse close is the identity on the layout: from
\* a tab with one pane A of 80x24, VerticalSplit(B) gives A and B of 40x24 each
\* with the focus on B, and a following CloseFocusedPane leaves the single pane A
\* of 80x24; from every tab the screen reaches, a split in either direction
\* followed by the close of the new pane gives back the tree, the focus and the
\* rectangles of before the split. The screen applies these very operations when
\* it handles HorizontalSplit, VerticalSplit and CloseFocusedPane.
C24_SplitThenCloseIsIdentity ==
    /\ []ScenarioHolds
    /\ [](\A d \in {"h", "v"} : \A n \in (1..nextPid) \ LeavesOf(tab.tree) :
            /\ SplitTab(tab, d, n).focus = n
            /\ SplitThenClose(tab, d, n) = tab
            /\ \A ws \in ScreenSizes :
                  Drawn(SplitThenClose(tab, d, n), ws) = Drawn(tab, ws))
    /\ [][(ScreenTakes({"HorizontalSplit"}) /\ ~NoActiveTab) =>
            tab' = SplitTab(tab, "h", Head(screenQ).instr[2])]_vars
    /\ [][(ScreenTakes({"VerticalSplit"}) /\ ~NoActiveTab) =>
            tab' = SplitTab(tab, "v", Head(screenQ).instr[2])]_vars
    /\ [][(ScreenTakes({"CloseFocusedPane"}) /\ ~NoActiveTab) =>
            tab' = CloseInTab(tab, tab.focus)]_vars

\* the tab is back to its one pane after a second pane was opened beside it and
\* closed again: the request to close its child is on its way to the pty thread
C24_SecondPaneClosed ==
    /\ tab = [tree |-> Leaf(1), focus |-> 1]
    /\ \E m \in InFlight : Inner(m.instr) = <<"ClosePane", 2>>

----------------------------------------------------------------------------
(* The end of the worker loops *)

\* the worker loops, the bus each receives from and the message that ends it
Workers == {"screen", "wasm", "pty", "router"}

BusNames == {"app", "screen", "wasm", "pty", "ipc_server", "router"}

Bus(n) ==
    CASE n = "app" -> appQ
      [] n = "screen" -> screenQ
      [] n = "wasm" -> pluginQ
      [] n = "pty" -> ptyQ
      [] n = "ipc_server" -> serverBuf
      [] n = "router" -> clientBuf

EndsLoop(t) == IF t = "pty" THEN "Quit" ELSE "Exit"

\* what the loop of worker t alone writes
OwnState(t) ==
    CASE t = "screen" -> <<tabs, panes, tab, Len(SelectSeq(stdout, LAMBDA e : e = "render"))>>
      [] t = "wasm" -> hostVars
      [] t = "pty" -> <<nextPid>>
      [] t = "router" -> <<>>

\* worker t takes the message that ends its loop
TakesExit(t) ==
    /\ pc[t] = "loop"
    /\ Taken(Bus(t), Bus(t)')
    /\ Kind(Head(Bus(t))) = EndsLoop(t)

\* the loop of worker t has ended by its Exit / Quit
Ended(t) == pc[t] = "done"

\* C25: Exit drains no further work. The step in which a worker loop (screen,
\* plugin host, pty thread, client router) takes its Exit / Quit ends the loop
\* and does nothing else; from then on the worker takes nothing from its bus,
\* sends nothing and changes nothing, so what is queued behind Exit stays there
\* without effect. A loop ends in this way only by taking Exit / Quit at the head
\* of its bus, and a bus loses messages at its head only, to its own loop: every
\* message queued ahead of Exit has been handled before the loop ends.
C25_ExitEndsTheLoop ==
    [][\A t \in Workers :
          /\ TakesExit(t) =>
                /\ Ended(t)'
                /\ Bus(t)' = Tail(Bus(t))
                /\ \A n \in BusNames \ {t} : Bus(n)' = Bus(n)
                /\ pend' = pend /\ OwnState(t)' = OwnState(t)
                /\ UNCHANGED <<termVars, cmdVars>>
          /\ Ended(t) =>
                /\ Ended(t)'
                /\ ~Taken(Bus(t), Bus(t)')
                /\ errCtx'[t] = errCtx[t] /\ pend'[t] = pend[t]
                /\ OwnState(t)' = OwnState(t)
          /\ (~Ended(t) /\ Ended(t)') => TakesExit(t)
          /\ Taken(Bus(t), Bus(t)') =>
                /\ Handles(t, Head(Bus(t)))
                /\ SubSeq(Bus(t)', 1, Len(Bus(t)) - 1) = Tail(Bus(t))]_vars

\* the screen thread has ended by Exit while a later message waits behind it
C25_QueuedBehindExit == Ended("screen") /\ screenQ # <<>>

----------------------------------------------------------------------------
(* The route between the app dispatcher and the server *)

\* the app dispatcher waits for room in the server buffer, to send ToPty or Exit
AppWaitsForServer ==
    pc["app"] \in {"send_topty", "exit_send", "error_send"} /\ RingFull(serverBuf)

\* the ipc_server thread waits for room on the app bus
ServerWaitsForApp == pc["ipc_server"] = "send_app" /\ AppFull

\* C26: the routing cycle between client and server never deadlocks: in no
\* reachable state does the app dispatcher wait to send ServerInstruction::ToPty
\* (or Exit) into a full server buffer while the ipc_server thread, the only
\* reader of that buffer, waits to send an AppInstruction into the full app
\* channel, whose only reader is the app dispatcher.
C26_NoRoutingDeadlock == ~(AppWaitsForServer /\ ServerWaitsForApp)

----------------------------------------------------------------------------
(* Concurrent calls of update_state *)

\* both calls of update_state have returned and the app dispatcher has handled
\* all they sent
UpdatesDone ==
    /\ \A c \in Callers : updPc[c] = "done"
    /\ \A i \in 1..Len(appQ) : Kind(appQ[i]) \notin {"GetState", "SetState"}

\* C27: update_state is an atomic read-modify-write of AppState: when two
\* threads call it concurrently with the update functions f and g on state s,
\* the final AppState is f(g(s)) or g(f(s)): no update is lost through the
\* interleaving of their GetState and SetState messages.
C27_NoLostUpdate ==
    UpdatesDone =>
        appState \in {UpdateFn("f", UpdateFn("g", "default")),
                      UpdateFn("g", UpdateFn("f", "default"))}

----------------------------------------------------------------------------
(* Initialisation of the plugins *)

\* the places in the log where an export of plugin pid is called that runs the
\* tile's method
RunsOf(pid, method) ==
    {i \in 1..Len(pluginLog) :
        /\ pluginLog[i][1] = "call" /\ pluginLog[i][2] = pid
        /\ \E n \in DOMAIN TileRuns(pluginLog[i][3]) :
              TileRuns(pluginLog[i][3])[n] = method}

\* the places in the log where the host uses plugin pid: a key on its stdin, or
\* a call of draw, handle_key or handle_global_key
UsesOf(pid) ==
    {i \in 1..Len(pluginLog) :
        /\ pluginLog[i][2] = pid
        /\ \/ pluginLog[i][1] = "write"
           \/ pluginLog[i][1] = "call" /\ pluginLog[i][3] # "_start"}

\* the plugin ids the host has met: stored, replied, or in the log
KnownPids ==
    LoadedIds \cup {pidReplies[i] : i \in 1..Len(pidReplies)}
              \cup {pluginLog[i][2] : i \in 1..Len(pluginLog)}

\* C28: a plugin is initialised before it is used: for every Load the module's
\* entry point, which runs the tile's init exactly once, has returned before
\* the instance is stored in the plugin map and before its id is replied, so no
\* draw, handle_key or handle_global_key reaches a plugin whose init has not
\* completed, and init is never run a second time for the same instance.
C28_InitBeforeUse ==
    \A pid \in KnownPids :
        /\ Cardinality(RunsOf(pid, "init")) <= 1
        /\ (pid \in LoadedIds \/ \E i \in 1..Len(pidReplies) : pidReplies[i] = pid)
              => Cardinality(RunsOf(pid, "init")) = 1
        /\ \A i \in UsesOf(pid) : \E j \in RunsOf(pid, "init") : j < i

\* plugin 0 has been loaded and then drawn or given a key
C28_LoadedThenUsed == 0 \in LoadedIds /\ UsesOf(0) # {}

----------------------------------------------------------------------------
(* The last bytes on stdout *)

\* the goodbye line or the backtrace is in stdout
FinalTextWritten == \E i \in 1..Len(stdout) : stdout[i] \in FinalText

\* a render of the screen thread is in stdout behind a piece of final text
RenderAfterFinalText ==
    \E i \in 1..Len(stdout) : \E j \in (i + 1)..Len(stdout) :
        stdout[i] \in FinalText /\ stdout[j] = "render"

\* C29: nothing is drawn after the terminal is handed back: on the normal and on
\* the Error path the goodbye or error text is written only after the screen
\* thread has been joined, so it has ended when the text is written and stays
\* ended, and no render is in stdout behind the final text.
C29_NoRenderAfterFinalText ==
    /\ [](FinalTextWritten => ~Alive("screen") /\ ~RenderAfterFinalText)
    /\ [][FinalTextWritten' /\ ~FinalTextWritten =>
            ~Alive("screen") /\ pc'["screen"] = pc["screen"]]_vars

\* the screen thread rendered during the session, and the final text is behind
\* its renders
C29_RenderedThenFinalText ==
    \E i \in 1..Len(stdout) : \E j \in (i + 1)..Len(stdout) :
        stdout[i] = "render" /\ stdout[j] \in FinalText

====
